---------------------------- MODULE Spec2Model ----------------------------
(***************************************************************************)
(* Model of the tempo (BPM) detection of LoopLib/backend:                  *)
(*   src/bpm_detection.py  to_scalar, detect_bpm   (3-candidate pipeline)  *)
(*   src/server.py         to_scalar, upload_file  (4-candidate pipeline)  *)
(*                                                                         *)
(* Representation.                                                         *)
(*  - A Python float is an integer number of 1/Scale BPM (exact decimal    *)
(*    fixed point); +inf is the value Inf.                                 *)
(*  - A Python object that may be a number, a string, a list, an ndarray   *)
(*    or a raised exception is a record [t, v, elems, s] (see PyFloat).    *)
(*  - A waveform is a run-length encoded sample sequence: a sequence of    *)
(*    runs [v |-> amplitude, n |-> number of consecutive samples].         *)
(*  - Results of the signal-processing library (librosa) that the          *)
(*    repository does not compute itself are inputs drawn from small sets. *)
(***************************************************************************)
EXTENDS Integers, Sequences, FiniteSets, TLC

VARIABLES
    fn,                     \* the function being called
    pc,                     \* position inside the call
    trace,                  \* the stages executed so far, in order
    value,                  \* to_scalar: its argument
    y_in, sr_in,            \* the caller's waveform and sample rate
    y, sr,                  \* locals y, sr
    y_percussive,           \* local y_percussive
    y_percussive_filtered,  \* local y_percussive_filtered (detect_bpm)
    onset_env,              \* local onset_env
    autocorr, bpms,         \* locals autocorr, bpms (detect_bpm)
    bpm_candidate,          \* local bpm_candidate (detect_bpm)
    ac_global, tempo_lags,  \* locals ac_global, tempo_lags (detect_bpm)
    bpm_tempogram,          \* local bpm_tempogram (detect_bpm)
    raw,                    \* raw generator results before to_scalar
    tempo_beat,             \* local tempo_beat
    tempo_onset,            \* local tempo_onset (upload_file)
    tempo_beat_alt,         \* local tempo_beat_alt (upload_file)
    tempo_fine,             \* local tempo_fine (upload_file)
    bpm_estimates,          \* local bpm_estimates
    bpm_median,             \* local bpm_median (upload_file)
    bpm_weighted_avg,       \* local bpm_weighted_avg (upload_file)
    bpm_final,              \* local bpm_final
    exc,                    \* the exception in flight ("" when none)
    ret,                    \* what the call returned to its caller
    request,                \* upload_file: the HTTP request
    files,                  \* upload_file: the files in UPLOAD_FOLDER
    file_path,              \* upload_file: local file_path
    file_path_wav,          \* upload_file: local file_path_wav
    key,                    \* upload_file: local key
    response,               \* upload_file: the HTTP response
    prev,                   \* an earlier, finished call of detect_bpm
    workers,                \* concurrent upload_file requests: their locals
    uploads,                \* concurrent upload_file: UPLOAD_FOLDER contents
    beat_chroma,            \* generate_fingerprint: local beat_chroma
    beat_chroma_norm,       \* generate_fingerprint: local beat_chroma_norm
    similarities_major,     \* detect_key: local similarities_major
    similarities_minor,     \* detect_key: local similarities_minor
    best_key_index,         \* detect_key: local best_key_index
    best_key,               \* detect_key: local best_key
    confidence,             \* detect_key: local confidence
    mean_scores,            \* classify_audio: local mean_scores
    top_indices,            \* classify_audio: local top_indices
    top_classes,            \* classify_audio: local top_classes
    vocal_predictions,      \* classify_audio: local vocal_predictions
    detected_instruments    \* classify_audio: local detected_instruments

vars == << fn, pc, trace, value, y_in, sr_in, y, sr, y_percussive,
           y_percussive_filtered, onset_env, autocorr, bpms, bpm_candidate,
           ac_global, tempo_lags, bpm_tempogram, raw, tempo_beat, tempo_onset,
           tempo_beat_alt, tempo_fine, bpm_estimates, bpm_median,
           bpm_weighted_avg, bpm_final, exc, ret, request, files, file_path,
           file_path_wav, key, response, prev, workers, uploads, beat_chroma,
           beat_chroma_norm, similarities_major, similarities_minor,
           best_key_index, best_key, confidence, mean_scores, top_indices,
           top_classes, vocal_predictions, detected_instruments >>

-----------------------------------------------------------------------------
(* Numbers *)

\* A float x is the integer x * Scale: three decimal places are kept.
Scale == 10 * 10 * 10

\* numpy's inf (60 / 0.0): greater than every finite value of the model.
Inf == Scale * Scale * Scale

\* Python round(x, 2) / numpy round: to the nearest 1/100, ties to even.
Round0(x) ==
    LET q == x \div Scale
        r == x % Scale
    IN  IF 2 * r < Scale THEN q * Scale
        ELSE IF 2 * r > Scale THEN (q + 1) * Scale
        ELSE IF q % 2 = 0 THEN q * Scale ELSE (q + 1) * Scale
Round2(x) ==
    LET step == Scale \div 100
        q == x \div step
        r == x % step
    IN  IF 2 * r < step THEN q * step
        ELSE IF 2 * r > step THEN (q + 1) * step
        ELSE IF q % 2 = 0 THEN q * step ELSE (q + 1) * step

\* sorted(s), by insertion
RECURSIVE Insert(_, _)
Insert(x, s) ==
    IF s = << >> THEN << x >>
    ELSE IF x <= Head(s) THEN << x >> \o s
    ELSE << Head(s) >> \o Insert(x, Tail(s))

RECURSIVE Sorted(_)
Sorted(s) == IF s = << >> THEN << >> ELSE Insert(Head(s), Sorted(Tail(s)))

\* np.median of a non-empty list of floats: the middle element of the sorted
\* list, or the mean of the two middle elements.
RECURSIVE SeqSum(_)
SeqSum(s) == IF s = << >> THEN 0 ELSE Head(s) + SeqSum(Tail(s))
NpMean(s) == SeqSum(s) \div Len(s)
NpMedian(s) ==
    LET t == Sorted(s)
        n == Len(s)
    IN  IF n % 2 = 1 THEN t[(n + 1) \div 2]
        ELSE (t[n \div 2] + t[n \div 2 + 1]) \div 2

\* np.argmax of a non-empty list: the first index (1-based) of the maximum.
ArgMaxLast(s) ==
    CHOOSE i \in 1..Len(s) : (\A j \in 1..Len(s) : s[j] <= s[i])
                             /\ (\A j \in (i+1)..Len(s) : s[j] < s[i])
ArgMax(s) ==
    CHOOSE i \in 1..Len(s) : (\A j \in 1..Len(s) : s[j] <= s[i])
                             /\ (\A j \in 1..(i-1) : s[j] < s[i])

\* a[mask]: the elements of a whose mask entry is TRUE, in order
RECURSIVE MaskedRange(_, _, _, _)
MaskedRange(a, mask, lo, hi) ==
    IF lo > hi THEN << >>
    ELSE IF lo = hi THEN (IF mask[lo] THEN << a[lo] >> ELSE << >>)
    ELSE LET mid == (lo + hi) \div 2
         IN  MaskedRange(a, mask, lo, mid) \o MaskedRange(a, mask, mid + 1, hi)
Masked(a, mask) == MaskedRange(a, mask, 1, Len(a))

-----------------------------------------------------------------------------
(* Python objects *)

PyNone        == [t |-> "None",    v |-> 0, elems |-> << >>, s |-> ""]
PyFloat(x)    == [t |-> "float",   v |-> x, elems |-> << >>, s |-> ""]
PyInt(n)      == [t |-> "int",     v |-> n, elems |-> << >>, s |-> ""]
PyStr(str)    == [t |-> "str",     v |-> 0, elems |-> << >>, s |-> str]
PyArray(e)    == [t |-> "ndarray", v |-> 0, elems |-> e,     s |-> ""]
PyList(e)     == [t |-> "list",    v |-> 0, elems |-> e,     s |-> ""]
PyRaise(kind) == [t |-> "raise",   v |-> 0, elems |-> << >>, s |-> kind]

IsNumber(o) == o.t = "float"
Raised(o)   == o.t = "raise"

\* float(o) of a plain scalar: an int n becomes the float n.0; float() of a
\* list raises TypeError.  Array elements are floats already.
ToFloat(o) ==
    CASE o.t = "float" -> PyFloat(o.v)
      [] o.t = "int"   -> PyFloat(o.v * Scale)
      [] OTHER         -> PyRaise("TypeError")

\* bpm_detection.to_scalar
to_scalar_no_empty_check(o) ==
    IF o.t \in {"ndarray", "list"}
    THEN IF Len(o.elems) > 0 THEN PyFloat(o.elems[1]) ELSE PyRaise("IndexError")
    ELSE ToFloat(o)
to_scalar(o) ==
    IF o.t \in {"ndarray", "list"}
    THEN IF Len(o.elems) > 0 THEN PyFloat(o.elems[1]) ELSE PyFloat(0)
    ELSE ToFloat(o)

\* server.to_scalar
server_to_scalar(o) ==
    IF o.t = "ndarray"
    THEN IF Len(o.elems) > 0 THEN PyFloat(o.elems[1]) ELSE PyFloat(0)
    ELSE ToFloat(o)

-----------------------------------------------------------------------------
(* Constants of the program *)

target_sr  == 22050     \* bpm_detection.py: target_sr = 22050
hop_length == 512       \* bpm_detection.py: hop_length = 512
bpm_min    == 40        \* bpm_detection.py: bpm_min = 40
bpm_max    == 200       \* bpm_detection.py: bpm_max = 200
top_db     == 20        \* librosa.effects.trim(y, top_db=20)
stft_hop   == 512       \* librosa.stft / istft default hop (n_fft // 4)
win_length == 384       \* librosa.feature.tempogram default win_length
server_sr  == 22050     \* librosa.load default sr, server.py

\* The string assigned when validation fails, bpm_detection.py line 135
BPM_UNRELIABLE == "BPM detection failed or is unreliable"
\* The string returned by the except clause, bpm_detection.py line 143
BPM_EXCEPT_wrong == "Error in BPM detection"
BPM_EXCEPT == "BPM detection failed or is unreliable"
\* The string assigned when validation fails, server.py line 127
SERVER_BPM_UNRELIABLE == "BPM detection failed or is unreliable"

-----------------------------------------------------------------------------
(* Waveforms: run-length encoded sample sequences *)

MaxRuns == 2            \* runs in an input waveform
MaxAmp  == 1            \* amplitude levels 0..MaxAmp
RunLens == {4096, 32768}
SampleRates == {11025, 22050, 44100}

RECURSIVE WLen(_)
WLen(w) == IF w = << >> THEN 0 ELSE Head(w).n + WLen(Tail(w))

RECURSIVE WPeak(_)
WPeak(w) ==
    IF w = << >> THEN 0
    ELSE LET p == WPeak(Tail(w)) IN IF Head(w).v > p THEN Head(w).v ELSE p

IsSilent(w) == \A i \in 1..Len(w) : w[i].v = 0

\* the first k samples of w
RECURSIVE WTake(_, _)
WTake(w, k) ==
    IF k <= 0 \/ w = << >> THEN << >>
    ELSE IF Head(w).n <= k
         THEN << Head(w) >> \o WTake(Tail(w), k - Head(w).n)
         ELSE << [v |-> Head(w).v, n |-> k] >>

\* w without its first k samples
RECURSIVE WDrop(_, _)
WDrop(w, k) ==
    IF k <= 0 \/ w = << >> THEN w
    ELSE IF Head(w).n <= k
         THEN WDrop(Tail(w), k - Head(w).n)
         ELSE << [v |-> Head(w).v, n |-> Head(w).n - k] >> \o Tail(w)

\* y[lo:hi] for 0 <= lo <= hi <= len(y)
PySlice(w, lo, hi) == WTake(WDrop(w, lo), hi - lo)

\* the sample at 0-based index i
RECURSIVE WAt(_, _)
WAt(w, i) == IF i < Head(w).n THEN Head(w).v ELSE WAt(Tail(w), i - Head(w).n)

\* librosa.effects.trim(y, top_db): leading and trailing samples more than
\* top_db below the peak are removed (amplitude ratio 10^(top_db/20), 10 for
\* top_db = 20).  For an all-zero signal the reference level is zero, every
\* frame is 0 dB relative to it, and the whole signal is kept.  Trimming is
\* taken sample-exact here; librosa rounds the cut to analysis frames.
DbRatio(db) == CASE db = 20 -> 10 [] db = 40 -> 100 [] OTHER -> 1
NonSilent(a, peak) == peak = 0 \/ DbRatio(top_db) * a > peak

RECURSIVE DropLeading(_, _)
DropLeading(w, peak) ==
    IF w = << >> THEN << >>
    ELSE IF NonSilent(Head(w).v, peak) THEN w
    ELSE DropLeading(Tail(w), peak)

RECURSIVE DropTrailing(_, _)
DropTrailing(w, peak) ==
    IF w = << >> THEN << >>
    ELSE IF NonSilent(w[Len(w)].v, peak) THEN w
    ELSE DropTrailing(SubSeq(w, 1, Len(w) - 1), peak)

Trim(w) == DropTrailing(DropLeading(w, WPeak(w)), WPeak(w))

\* librosa.resample(y, orig_sr, target_sr): ceil(len * target / orig) samples;
\* every run boundary moves to its position at the new rate.
CeilDiv(a, b) == (a + b - 1) \div b

RECURSIVE Gcd(_, _)
Gcd(a, b) == IF b = 0 THEN a ELSE Gcd(b, a % b)

RECURSIVE ResampleFrom(_, _, _, _)
ResampleFrom(w, pos, orig, target) ==
    IF w = << >> THEN << >>
    ELSE LET g  == Gcd(target, orig)
             lo == CeilDiv(pos * (target \div g), orig \div g)
             hi == CeilDiv((pos + Head(w).n) * (target \div g), orig \div g)
             rest == ResampleFrom(Tail(w), pos + Head(w).n, orig, target)
         IN  IF hi > lo THEN << [v |-> Head(w).v, n |-> hi - lo] >> \o rest
             ELSE rest

Resample(w, orig, target) == ResampleFrom(w, 0, orig, target)

\* all waveforms of at most k runs, adjacent runs of different amplitude
RECURSIVE WaveformsUpTo(_)
WaveformsUpTo(k) ==
    IF k = 0 THEN { << >> }
    ELSE LET shorter == WaveformsUpTo(k - 1)
         IN  shorter \cup
             { Append(w, [v |-> a, n |-> len]) :
                 w \in { u \in shorter : Len(u) = k - 1 },
                 a \in 0..MaxAmp, len \in RunLens }

Waveforms ==
    { w \in WaveformsUpTo(MaxRuns) :
        \A i \in 1..(Len(w) - 1) : w[i].v # w[i + 1].v }

-----------------------------------------------------------------------------
(* Results of the signal-processing library *)

MaxElems == 1           \* elements of an array-like generator result

\* Tempo values a generator may report (in 1/Scale BPM), inside and above
\* the plausibility range; 0.0 is reported for silence and results from the
\* coercion of an empty array.
Tempos == {118000, 120000, 121000, 122000, 250000}

\* Onset-envelope periods (frames between onsets) of non-silent audio
Periods == {5, 20, 50}

\* Lag bins at which the time-averaged tempogram of non-silent audio peaks
PeakBins == {20, 65}

Zeros(n) == [i \in 1..n |-> 0]

\* librosa.onset.onset_strength: one value per hop, 1 + len // hop values; an
\* all-zero signal has an all-zero envelope, other signals an onset every
\* p frames.
OnsetEnvelopes(w, hop) ==
    LET n == 1 + WLen(w) \div hop
    IN  IF IsSilent(w) THEN { Zeros(n) }
        ELSE { [i \in 1..n |-> IF (i - 1) % p = 0 THEN 1 ELSE 0] : p \in Periods }

\* librosa.autocorrelate(x, max_size): ac[k] = sum_i x[i] * x[i + k] for the
\* lags k = 0 .. min(len(x), max_size) - 1  (index k + 1 here)
RECURSIVE SumProd(_, _, _, _)
SumProd(x, k, lo, hi) ==
    IF lo > hi THEN 0
    ELSE IF lo = hi THEN x[lo] * x[lo + k]
    ELSE LET mid == (lo + hi) \div 2
         IN  SumProd(x, k, lo, mid) + SumProd(x, k, mid + 1, hi)

Autocorrelate(x, max_size) ==
    LET m == IF Len(x) < max_size THEN Len(x) ELSE max_size
    IN  [j \in 1..m |-> SumProd(x, j - 1, 1, Len(x) - (j - 1))]

\* np.mean(librosa.feature.tempogram(...), axis=1): win_length lag bins, bin
\* 0 (lag 0) normalised to the maximum; all zero for an all-zero envelope.
Tempograms(env) ==
    IF \A i \in 1..Len(env) : env[i] = 0 THEN { Zeros(win_length) }
    ELSE { [j \in 1..win_length |->
              IF j = 1 THEN 10 ELSE IF j - 1 = q THEN 9 ELSE 1] : q \in PeakBins }

\* 60 / frames_to_time(k, sr, hop_length), and librosa.tempo_frequencies: the
\* BPM of lag k is 60 * sr / (k * hop_length); lag 0 gives inf.
BpmOfLag(k, rate, hop) ==
    LET g == Gcd(Scale, hop)
    IN  IF k = 0 THEN Inf ELSE (60 * rate * (Scale \div g)) \div (k * (hop \div g))

\* Elements of array-like generator results
ArrayTempos == {128300}

\* the array-like results of at most MaxElems elements
RECURSIVE TempoSeqs(_)
TempoSeqs(k) ==
    IF k = 0 THEN { << >> }
    ELSE TempoSeqs(k - 1) \cup
         { Append(e, x) : e \in { u \in TempoSeqs(k - 1) : Len(u) = k - 1 },
                          x \in ArrayTempos }

\* librosa.beat.beat_track tempo: a float (librosa <= 0.10.1) or an ndarray
\* (later versions); 0.0 when the onset envelope has no onsets.
BeatTrackResults(env) ==
    IF \A i \in 1..Len(env) : env[i] = 0 THEN { PyFloat(0) }
    ELSE { PyFloat(x) : x \in Tempos } \cup { PyArray(e) : e \in TempoSeqs(MaxElems) }

\* librosa.feature.rhythm.tempo: an ndarray of one tempo
TempoResults == { << x >> : x \in Tempos }

\* the array-like arguments of to_scalar, of at most MaxElems elements
RECURSIVE ScalarSeqs(_)
ScalarSeqs(k) ==
    IF k = 0 THEN { << >> }
    ELSE ScalarSeqs(k - 1) \cup
         { Append(e, x) : e \in { u \in ScalarSeqs(k - 1) : Len(u) = k - 1 },
                          x \in {0, 120000, 128300, 140000} }

\* every shape to_scalar is documented to accept
ScalarInputs ==
    { PyFloat(x) : x \in {0, 128300} } \cup { PyInt(n) : n \in {0, 140} }
    \cup { PyArray(e) : e \in ScalarSeqs(MaxElems) }
    \cup { PyList(e) : e \in ScalarSeqs(MaxElems) }

-----------------------------------------------------------------------------
(* HTTP requests and responses of the upload route *)

\* file names a client may send
FileNames == {"", "loop.wav", "loop.mp3", "../loop.wav"}

\* werkzeug secure_filename: path separators and leading dots are removed
secure_filename(name) ==
    CASE name = "../loop.wav" -> "loop.wav"
      [] OTHER -> name

\* file_path.endswith(".mp3")
endswith_mp3(path) == path \in {"loop.mp3"}

\* file_path.replace(".mp3", ".wav")
replace_mp3_wav(path) ==
    CASE path = "loop.mp3" -> "loop.wav"
      [] OTHER -> path

\* the decoded audio of an uploaded file, at librosa.load's sample rate
UploadAudio == { w \in Waveforms : Len(w) <= 1 /\ WLen(w) # 4096 }

NoFileRequest == [has_file |-> FALSE, filename |-> "", audio |-> << >>]

Requests ==
    { NoFileRequest } \cup
    { [has_file |-> TRUE, filename |-> n, audio |-> a] :
        n \in FileNames, a \in UploadAudio }

NoResponse == [status |-> 0, error |-> "", bpm |-> PyNone, key |-> ""]

\* jsonify({'error': e}), code
ErrorResponse(code, e) ==
    [status |-> code, error |-> e, bpm |-> PyNone, key |-> ""]

\* jsonify({'message': ..., 'bpm': b, 'key': k}), 200
OkResponse(b, k) == [status |-> 200, error |-> "", bpm |-> b, key |-> k]

-----------------------------------------------------------------------------
(* State *)

Functions == {"to_scalar", "server.to_scalar", "detect_bpm", "upload_file"}

\* a local that has not been assigned yet
Unset == 0 - 1

waveVars == << y, sr, y_percussive, y_percussive_filtered >>
acVars   == << onset_env, autocorr, bpms, bpm_candidate >>
tgVars   == << ac_global, tempo_lags, bpm_tempogram >>
candVars == << raw, tempo_beat, tempo_onset, tempo_beat_alt, tempo_fine >>
aggVars  == << bpm_estimates, bpm_median, bpm_weighted_avg, bpm_final >>
fpVars   == << beat_chroma, beat_chroma_norm >>
keyVars  == << similarities_major, similarities_minor, best_key_index,
               best_key, confidence >>
caVars   == << mean_scores, top_indices, top_classes, vocal_predictions,
               detected_instruments >>
\* the state of the other entry points
extVars  == << prev, workers, uploads, fpVars, keyVars, caVars >>
callVars == << fn, value, y_in, sr_in, extVars >>
upVars   == << request, files, file_path, file_path_wav, key, response >>
upFiles  == << files, file_path, file_path_wav >>

\* no earlier call
NoCall == [made |-> FALSE]

\* the locals of a call that has just been entered
Locals0 ==
    /\ pc = "start"
    /\ trace = << >>
    /\ files = {}
    /\ file_path = ""
    /\ file_path_wav = ""
    /\ key = ""
    /\ response = NoResponse
    /\ y_percussive = << >>
    /\ y_percussive_filtered = << >>
    /\ onset_env = << >>
    /\ autocorr = << >>
    /\ bpms = << >>
    /\ bpm_candidate = Unset
    /\ ac_global = << >>
    /\ tempo_lags = << >>
    /\ bpm_tempogram = Unset
    /\ raw = << >>
    /\ tempo_beat = Unset
    /\ tempo_onset = Unset
    /\ tempo_beat_alt = Unset
    /\ tempo_fine = Unset
    /\ bpm_estimates = << >>
    /\ bpm_median = Unset
    /\ bpm_weighted_avg = Unset
    /\ bpm_final = PyNone
    /\ exc = ""
    /\ ret = PyNone

\* no concurrent requests
Workers0 == workers = << >> /\ uploads = << >>

\* generate_fingerprint is not being called
Fingerprint0 == beat_chroma = << >> /\ beat_chroma_norm = << >>

\* detect_key is not being called
Key0 ==
    /\ similarities_major = << >>
    /\ similarities_minor = << >>
    /\ best_key_index = Unset
    /\ best_key = ""
    /\ confidence = Unset

\* classify_audio is not being called
Classify0 ==
    /\ mean_scores = << >>
    /\ top_indices = << >>
    /\ top_classes = << >>
    /\ vocal_predictions = << >>
    /\ detected_instruments = << >>

\* the entry points that are not being called
Ext0 == prev = NoCall /\ Workers0 /\ Fingerprint0 /\ Key0 /\ Classify0

Init ==
    /\ fn \in Functions
    /\ value \in (IF fn \in {"to_scalar", "server.to_scalar"}
                  THEN ScalarInputs ELSE {PyNone})
    /\ y_in \in (IF fn = "detect_bpm" THEN Waveforms ELSE {<< >>})
    /\ sr_in \in (IF fn = "detect_bpm" THEN SampleRates ELSE {0})
    /\ y = y_in
    /\ sr = sr_in
    /\ request \in (IF fn = "upload_file" THEN Requests ELSE {NoFileRequest})
    /\ Locals0
    /\ Ext0

\* the stage named s runs
Stage(s) == trace' = Append(trace, s)

-----------------------------------------------------------------------------
(* to_scalar, called on its own *)

\* bpm_detection.to_scalar(value)
call_to_scalar ==
    /\ fn = "to_scalar" /\ pc = "start"
    /\ Stage("to_scalar")
    /\ ret' = to_scalar(value)
    /\ exc' = IF Raised(ret') THEN ret'.s ELSE ""
    /\ pc' = "done"
    /\ UNCHANGED << callVars, upVars, waveVars, acVars, tgVars, candVars, aggVars >>

\* server.to_scalar(value)
call_server_to_scalar ==
    /\ fn = "server.to_scalar" /\ pc = "start"
    /\ Stage("to_scalar")
    /\ ret' = server_to_scalar(value)
    /\ exc' = IF Raised(ret') THEN ret'.s ELSE ""
    /\ pc' = "done"
    /\ UNCHANGED << callVars, upVars, waveVars, acVars, tgVars, candVars, aggVars >>

-----------------------------------------------------------------------------
(* bpm_detection.detect_bpm(y, sr) *)

\* a statement of the try block raises: control goes to the except clause
RaiseAndRetry(kind) == /\ exc' = kind /\ pc' = pc
Raise(kind) == /\ exc' = kind /\ pc' = "except"

\* line 32: y, _ = librosa.effects.trim(y, top_db=20)
db_trim ==
    /\ fn = "detect_bpm" /\ pc = "start"
    /\ Stage("trim")
    /\ \/ /\ y' = Trim(y) /\ pc' = "resample" /\ exc' = exc
       \/ /\ Raise("ParameterError") /\ y' = y
    /\ UNCHANGED << callVars, upVars, sr, y_percussive, y_percussive_filtered,
                    acVars, tgVars, candVars, aggVars, ret >>

\* line 41: if sr != target_sr
NeedsResampleAbove(rate) == rate > target_sr
NeedsResample(rate) == rate # target_sr

\* lines 41-46: the resample branch
db_resample ==
    /\ fn = "detect_bpm" /\ pc = "resample"
    /\ NeedsResample(sr)
    /\ Stage("resample")
    /\ \/ /\ y' = Resample(y, sr, target_sr)
          /\ sr' = target_sr
          /\ pc' = "window" /\ exc' = exc
       \/ /\ Raise("ParameterError") /\ UNCHANGED << y, sr >>
    /\ UNCHANGED << callVars, upVars, y_percussive, y_percussive_filtered,
                    acVars, tgVars, candVars, aggVars, ret >>

\* line 41, condition false: the branch is skipped
db_no_resample ==
    /\ fn = "detect_bpm" /\ pc = "resample"
    /\ ~NeedsResample(sr)
    /\ pc' = "window"
    /\ UNCHANGED << callVars, upVars, trace, waveVars, acVars, tgVars, candVars,
                    aggVars, exc, ret >>

\* lines 49-50
middle_start(w) == WLen(w) \div 4
middle_end_half(w) == middle_start(w) + WLen(w) \div 2
middle_end(w)   == (3 * WLen(w)) \div 4

\* lines 49-52: y = y[middle_start:middle_end]
db_window ==
    /\ fn = "detect_bpm" /\ pc = "window"
    /\ Stage("window")
    /\ y' = PySlice(y, middle_start(y), middle_end(y))
    /\ pc' = "hpss"
    /\ UNCHANGED << callVars, upVars, sr, y_percussive, y_percussive_filtered,
                    acVars, tgVars, candVars, aggVars, exc, ret >>

\* line 56: y_harmonic, y_percussive = librosa.effects.hpss(y); the
\* percussive part has the length of y and is silent where y is
db_hpss ==
    /\ fn = "detect_bpm" /\ pc = "hpss"
    /\ Stage("hpss")
    /\ \/ /\ y_percussive' = y /\ pc' = "bandpass" /\ exc' = exc
       \/ /\ Raise("ParameterError") /\ y_percussive' = y_percussive
    /\ UNCHANGED << callVars, upVars, y, sr, y_percussive_filtered,
                    acVars, tgVars, candVars, aggVars, ret >>

\* lines 61-69: stft, zero the bins outside 150-5000 Hz, istft; the istft of
\* n frames has stft_hop * (n - 1) samples, n = 1 + len // stft_hop
db_bandpass ==
    /\ fn = "detect_bpm" /\ pc = "bandpass"
    /\ Stage("bandpass")
    /\ \/ /\ y_percussive_filtered' =
                WTake(y_percussive, stft_hop * (WLen(y_percussive) \div stft_hop))
          /\ pc' = "onset" /\ exc' = exc
       \/ /\ Raise("ParameterError")
          /\ y_percussive_filtered' = y_percussive_filtered
    /\ UNCHANGED << callVars, upVars, y, sr, y_percussive,
                    acVars, tgVars, candVars, aggVars, ret >>

\* lines 75-76: onset_env = librosa.onset.onset_strength(...)
db_onset ==
    /\ fn = "detect_bpm" /\ pc = "onset"
    /\ Stage("onset")
    /\ \/ /\ onset_env' \in OnsetEnvelopes(y_percussive_filtered, hop_length)
          /\ pc' = "autocorr" /\ exc' = exc
       \/ /\ Raise("ParameterError") /\ onset_env' = onset_env
    /\ UNCHANGED << callVars, upVars, waveVars, autocorr, bpms, bpm_candidate,
                    tgVars, candVars, aggVars, ret >>

\* line 81: autocorr = librosa.autocorrelate(onset_env, max_size=sr//hop_length)
db_autocorr ==
    /\ fn = "detect_bpm" /\ pc = "autocorr"
    /\ Stage("autocorr")
    /\ \/ /\ autocorr' = Autocorrelate(onset_env, sr \div hop_length)
          /\ pc' = "ac_select" /\ exc' = exc
       \/ /\ Raise("ParameterError") /\ autocorr' = autocorr
    /\ UNCHANGED << callVars, upVars, waveVars, onset_env, bpms, bpm_candidate,
                    tgVars, candVars, aggVars, ret >>


\* lines 94, 112: (bpms >= bpm_min) & (bpms <= bpm_max)
valid_no_upper(b) == bpm_min * Scale <= b
valid(b) == bpm_min * Scale <= b /\ b <= bpm_max * Scale

\* the BPM of every lag 0 .. n-1 (lines 90-91, line 110)
LagBpms(n, rate, hop) == [j \in 1..n |-> BpmOfLag(j - 1, rate, hop)]

\* the mask of the in-range entries (lines 94, 112)
ValidMask(b) == [j \in 1..Len(b) |-> valid(b[j])]

\* lines 84-99: lags to BPM, keep the lags in [bpm_min, bpm_max], take the
\* BPM of the strongest; np.argmax of an empty array raises ValueError
db_ac_select ==
    /\ fn = "detect_bpm" /\ pc = "ac_select"
    /\ Stage("ac_select")
    /\ LET all  == LagBpms(Len(autocorr), sr, hop_length)
           mask == ValidMask(all)
       IN  /\ bpms' = Masked(all, mask)
           /\ autocorr' = Masked(autocorr, mask)
    /\ IF autocorr' = << >>
       THEN /\ Raise("ValueError") /\ bpm_candidate' = bpm_candidate
       ELSE /\ bpm_candidate' = bpms'[ArgMax(autocorr')]
            /\ pc' = "tempogram" /\ exc' = exc
    /\ UNCHANGED << callVars, upVars, waveVars, onset_env, tgVars, candVars,
                    aggVars, ret >>

\* lines 105-118: time-averaged tempogram, bins to BPM, keep the bins in
\* [bpm_min, bpm_max], take the BPM of the strongest
db_tempogram ==
    /\ fn = "detect_bpm" /\ pc = "tempogram"
    /\ Stage("tempogram")
    /\ \/ \E ag \in Tempograms(onset_env) :
            LET all  == LagBpms(Len(ag), sr, hop_length)
                mask == ValidMask(all)
            IN  /\ tempo_lags' = Masked(all, mask)
                /\ ac_global' = Masked(ag, mask)
                /\ IF ac_global' = << >>
                   THEN /\ Raise("ValueError")
                        /\ bpm_tempogram' = bpm_tempogram
                   ELSE /\ bpm_tempogram' = tempo_lags'[ArgMax(ac_global')]
                        /\ pc' = "beat_track" /\ exc' = exc
       \/ /\ Raise("ParameterError") /\ UNCHANGED tgVars
    /\ UNCHANGED << callVars, upVars, waveVars, acVars, candVars, aggVars, ret >>

\* lines 123-124: beat_track, then tempo_beat = to_scalar(tempo_beat)
db_beat_track ==
    /\ fn = "detect_bpm" /\ pc = "beat_track"
    /\ Stage("beat_track")
    /\ \/ \E r \in BeatTrackResults(onset_env) :
            /\ raw' = Append(raw, r)
            /\ IF Raised(to_scalar(r))
               THEN /\ Raise(to_scalar(r).s) /\ tempo_beat' = tempo_beat
               ELSE /\ tempo_beat' = to_scalar(r).v
                    /\ pc' = "aggregate" /\ exc' = exc
       \/ /\ Raise("ParameterError") /\ UNCHANGED << raw, tempo_beat >>
    /\ UNCHANGED << callVars, upVars, waveVars, acVars, tgVars, tempo_onset,
                    tempo_beat_alt, tempo_fine, aggVars, ret >>

\* lines 128-130: bpm_final = round(float(np.median(bpm_estimates)), 2)
db_aggregate ==
    /\ fn = "detect_bpm" /\ pc = "aggregate"
    /\ Stage("aggregate")
    /\ bpm_estimates' = << bpm_candidate, bpm_tempogram, tempo_beat >>
    /\ bpm_final' = PyFloat(Round2(NpMedian(bpm_estimates')))
    /\ pc' = "validate"
    /\ UNCHANGED << callVars, upVars, waveVars, acVars, tgVars, candVars,
                    bpm_median, bpm_weighted_avg, exc, ret >>

\* line 134: bpm_min <= bpm_final <= bpm_max
plausible(b) == bpm_min * Scale <= b /\ b <= bpm_max * Scale

\* lines 134-140: the validation gate and the return
db_validate ==
    /\ fn = "detect_bpm" /\ pc = "validate"
    /\ Stage("validate")
    /\ bpm_final' = IF ~plausible(bpm_final.v)
                    THEN PyStr(BPM_UNRELIABLE) ELSE bpm_final
    /\ ret' = bpm_final'
    /\ pc' = "done"
    /\ UNCHANGED << callVars, upVars, waveVars, acVars, tgVars, candVars,
                    bpm_estimates, bpm_median, bpm_weighted_avg, exc >>

\* lines 141-143: except Exception: return the failure string
db_except ==
    /\ fn = "detect_bpm" /\ pc = "except"
    /\ Stage("except")
    /\ ret' = PyStr(BPM_EXCEPT)
    /\ pc' = "done"
    /\ UNCHANGED << callVars, upVars, waveVars, acVars, tgVars, candVars, aggVars,
                    exc >>

-----------------------------------------------------------------------------
(* bpm_detection.detect_bpm(y, sr), called again by the same caller *)

\* line 25: def detect_bpm(y, sr); entering the call binds each parameter to
\* the caller's argument, whatever an earlier call left behind
ParamLeftover(arg, leftover) == leftover
Param(arg, leftover) == arg

\* the arguments of the repeated calls: silence or a tone, at a rate that
\* needs resampling or at the target rate
RepeatWaveforms ==
    { << [v |-> a, n |-> 32768] >> : a \in {0, 1} }
RepeatRates == {11025, 22050}

\* what is known of a finished call: its arguments, what the library was
\* given and answered at its nondeterministic stages, and the result
CallRecord ==
    [made |-> TRUE, between |-> FALSE, y |-> y_in, sr |-> sr_in,
     trace |-> trace, onset_in |-> y_percussive_filtered,
     onset_env |-> onset_env, rate |-> sr, ac_global |-> ac_global,
     tempo_lags |-> tempo_lags, raw |-> raw, ret |-> ret]

\* the call has returned and the caller calls detect_bpm again, with any
\* arguments; every local of the new call is fresh
db_call ==
    /\ fn = "detect_bpm" /\ pc = "done"
    /\ \E w \in RepeatWaveforms, r \in RepeatRates :
          /\ y_in' = w /\ sr_in' = r
          /\ y' = Param(w, y) /\ sr' = Param(r, sr)
    /\ \/ prev' = CallRecord
       \/ prev' = IF prev.made THEN [prev EXCEPT !.between = TRUE] ELSE prev
    /\ pc' = "start" /\ trace' = << >> /\ exc' = "" /\ ret' = PyNone
    /\ y_percussive' = << >> /\ y_percussive_filtered' = << >>
    /\ onset_env' = << >> /\ autocorr' = << >> /\ bpms' = << >>
    /\ bpm_candidate' = Unset
    /\ ac_global' = << >> /\ tempo_lags' = << >> /\ bpm_tempogram' = Unset
    /\ raw' = << >> /\ tempo_beat' = Unset
    /\ bpm_estimates' = << >> /\ bpm_final' = PyNone
    /\ UNCHANGED << tempo_onset, tempo_beat_alt, tempo_fine, bpm_median,
                    bpm_weighted_avg, upVars >>
    /\ UNCHANGED << fn, value, request, workers, uploads, fpVars, keyVars,
                    caVars >>

InitRepeat ==
    /\ fn = "detect_bpm"
    /\ value = PyNone
    /\ y_in \in RepeatWaveforms
    /\ sr_in \in RepeatRates
    /\ y = y_in
    /\ sr = sr_in
    /\ request = NoFileRequest
    /\ Locals0
    /\ Ext0

NextRepeat ==
    \/ db_trim
    \/ db_resample
    \/ db_no_resample
    \/ db_window
    \/ db_hpss
    \/ db_bandpass
    \/ db_onset
    \/ db_autocorr
    \/ db_ac_select
    \/ db_tempogram
    \/ db_beat_track
    \/ db_aggregate
    \/ db_validate
    \/ db_except
    \/ db_call

SpecRepeat == InitRepeat /\ [][NextRepeat]_vars

-----------------------------------------------------------------------------
(* server.add_metronome(y, sr, bpm, duration) *)

bpm_estimate == 120     \* server.py: bpm_estimate = 120
click_ms     == 50      \* server.py: to_audio_segment(duration=50)
minute_ms    == 60000   \* server.py: silence_duration = 60000 / bpm
click_level  == 6553    \* a -20 dBFS sine at 32-bit width, divided by 32768
float_one    == 32512   \* the bytes of float32 1.0 read as int32, / 32768

Min(a, b) == IF a < b THEN a ELSE b

\* a waveform with adjacent equal runs merged and empty runs dropped
RECURSIVE Normalize(_)
Normalize(w) ==
    IF w = << >> THEN << >>
    ELSE IF Head(w).n = 0 THEN Normalize(Tail(w))
    ELSE LET rest == Normalize(Tail(w))
         IN  IF rest # << >> /\ Head(rest).v = Head(w).v
             THEN << [v |-> Head(w).v, n |-> Head(w).n + Head(rest).n] >>
                  \o Tail(rest)
             ELSE << Head(w) >> \o rest

\* AudioSegment.overlay: b mixed onto a, the result as long as a
RECURSIVE WOverlay(_, _)
WOverlay(a, b) ==
    IF a = << >> THEN << >>
    ELSE IF b = << >> THEN a
    ELSE LET k == Min(Head(a).n, Head(b).n)
         IN  << [v |-> Head(a).v + Head(b).v, n |-> k] >>
             \o WOverlay(WDrop(a, k), WDrop(b, k))

\* metronome * loops: a click of click_ms then silence, every 60000/bpm ms
RECURSIVE MetronomeTrack(_, _, _)
MetronomeTrack(loops, rate, bpm) ==
    IF loops <= 0 THEN << >>
    ELSE LET period == (rate * (minute_ms \div bpm)) \div 1000
             click  == (rate * click_ms) \div 1000
         IN  << [v |-> click_level, n |-> click],
                [v |-> 0, n |-> period - click] >>
             \o MetronomeTrack(loops - 1, rate, bpm)

\* y.tobytes() read as samples of y.dtype.itemsize bytes: the float32 bit
\* patterns become integers; 0.0 stays 0
Reinterpret(w) == [i \in 1..Len(w) |-> [v |-> w[i].v * float_one, n |-> w[i].n]]

\* lines 142-165; int(duration / (silence_duration / 1000)) loops, duration
\* being len(y) / sr seconds
add_metronome(w, rate, bpm) ==
    LET loops == (WLen(w) * 1000) \div (rate * (minute_ms \div bpm))
    IN  Normalize(WOverlay(Reinterpret(w), MetronomeTrack(loops, rate, bpm)))

-----------------------------------------------------------------------------
(* server.upload_file() *)

default_hop == 512      \* librosa default hop_length (server.py line 84)
fine_hop    == 256      \* server.py: hop_length = 256

Keys == {"C", "Key detection failed"}

flowVars == << fn, value, y_in, sr_in, request, ret, extVars >>

\* lines 34-35: no 'file' part in the request
uf_no_file_part ==
    /\ fn = "upload_file" /\ pc = "start"
    /\ ~request.has_file
    /\ response' = ErrorResponse(400, "No file part")
    /\ pc' = "done"
    /\ UNCHANGED << flowVars, trace, waveVars, acVars, tgVars, candVars,
                    aggVars, exc, files, file_path, file_path_wav, key >>

\* lines 39-40: empty file name
uf_no_selected_file ==
    /\ fn = "upload_file" /\ pc = "start"
    /\ request.has_file /\ request.filename = ""
    /\ response' = ErrorResponse(400, "No selected file")
    /\ pc' = "done"
    /\ UNCHANGED << flowVars, trace, waveVars, acVars, tgVars, candVars,
                    aggVars, exc, files, file_path, file_path_wav, key >>

\* lines 46-48: the upload is saved under its secured name
uf_save ==
    /\ fn = "upload_file" /\ pc = "start"
    /\ request.has_file /\ request.filename # ""
    /\ Stage("save")
    /\ file_path' = secure_filename(request.filename)
    /\ files' = files \cup {file_path'}
    /\ pc' = "load"
    /\ UNCHANGED << flowVars, waveVars, acVars, tgVars, candVars, aggVars,
                    exc, file_path_wav, key, response >>

\* lines 52-55: an .mp3 is converted to a .wav file beside it
uf_convert_mp3 ==
    /\ fn = "upload_file" /\ pc = "load"
    /\ endswith_mp3(file_path)
    /\ Stage("convert")
    /\ \/ /\ file_path_wav' = replace_mp3_wav(file_path)
          /\ files' = files \cup {file_path_wav'}
          /\ pc' = "load_wav" /\ exc' = exc
       \/ /\ Raise("CouldntDecodeError") /\ UNCHANGED << file_path_wav, files >>
    /\ UNCHANGED << flowVars, waveVars, acVars, tgVars, candVars, aggVars,
                    file_path, key, response >>

\* line 56: y, sr = librosa.load(file_path_wav)
uf_load_wav ==
    /\ fn = "upload_file" /\ pc = "load_wav"
    /\ Stage("load")
    /\ \/ /\ y' = request.audio /\ sr' = server_sr
          /\ pc' = "remove_wav" /\ exc' = exc
       \/ /\ Raise("LibsndfileError") /\ UNCHANGED << y, sr >>
    /\ UNCHANGED << flowVars, y_percussive, y_percussive_filtered, acVars,
                    tgVars, candVars, aggVars, files, file_path,
                    file_path_wav, key, response >>

\* line 57: os.remove(file_path_wav)
uf_remove_wav ==
    /\ fn = "upload_file" /\ pc = "remove_wav"
    /\ files' = files \ {file_path_wav}
    /\ pc' = "metronome"
    /\ UNCHANGED << flowVars, trace, waveVars, acVars, tgVars, candVars,
                    aggVars, exc, file_path, file_path_wav, key, response >>

\* line 59: y, sr = librosa.load(file_path)
uf_load ==
    /\ fn = "upload_file" /\ pc = "load"
    /\ ~endswith_mp3(file_path)
    /\ Stage("load")
    /\ \/ /\ y' = request.audio /\ sr' = server_sr
          /\ pc' = "metronome" /\ exc' = exc
       \/ /\ Raise("LibsndfileError") /\ UNCHANGED << y, sr >>
    /\ UNCHANGED << flowVars, y_percussive, y_percussive_filtered, acVars,
                    tgVars, candVars, aggVars, files, file_path,
                    file_path_wav, key, response >>

\* lines 64-66: y = add_metronome(y, sr, bpm_estimate, duration)
uf_metronome ==
    /\ fn = "upload_file" /\ pc = "metronome"
    /\ Stage("metronome")
    /\ \/ /\ y' = add_metronome(y, sr, bpm_estimate)
          /\ pc' = "trim" /\ exc' = exc
       \/ /\ Raise("ValueError") /\ y' = y
    /\ UNCHANGED << flowVars, sr, y_percussive, y_percussive_filtered,
                    acVars, tgVars, candVars, aggVars, upFiles, key, response >>

\* line 70: y, _ = librosa.effects.trim(y, top_db=20)
uf_trim ==
    /\ fn = "upload_file" /\ pc = "trim"
    /\ Stage("trim")
    /\ \/ /\ y' = Trim(y) /\ pc' = "window" /\ exc' = exc
       \/ /\ Raise("ParameterError") /\ y' = y
    /\ UNCHANGED << flowVars, sr, y_percussive, y_percussive_filtered,
                    acVars, tgVars, candVars, aggVars, upFiles, key, response >>

\* lines 74-77: y = y[middle_start:middle_end]
uf_window ==
    /\ fn = "upload_file" /\ pc = "window"
    /\ Stage("window")
    /\ y' = PySlice(y, middle_start(y), middle_end(y))
    /\ pc' = "hpss"
    /\ UNCHANGED << flowVars, sr, y_percussive, y_percussive_filtered,
                    acVars, tgVars, candVars, aggVars, exc, upFiles, key,
                    response >>

\* lines 83-84: hpss, then onset_env = onset_strength(y=y_percussive, sr=sr)
uf_hpss ==
    /\ fn = "upload_file" /\ pc = "hpss"
    /\ Stage("hpss")
    /\ \/ /\ y_percussive' = y
          /\ onset_env' \in OnsetEnvelopes(y, default_hop)
          /\ pc' = "beat_fast" /\ exc' = exc
       \/ /\ Raise("ParameterError") /\ UNCHANGED << y_percussive, onset_env >>
    /\ UNCHANGED << flowVars, y, sr, y_percussive_filtered, autocorr, bpms,
                    bpm_candidate, tgVars, candVars, aggVars, upFiles, key,
                    response >>

\* lines 89-91: beat_track(start_bpm=90, tightness=100), then to_scalar
uf_beat_fast ==
    /\ fn = "upload_file" /\ pc = "beat_fast"
    /\ Stage("beat_fast")
    /\ \/ \E r \in BeatTrackResults(onset_env) :
            /\ raw' = Append(raw, r)
            /\ IF Raised(server_to_scalar(r))
               THEN /\ Raise(server_to_scalar(r).s) /\ tempo_beat' = tempo_beat
               ELSE /\ tempo_beat' = server_to_scalar(r).v
                    /\ pc' = "tempo_onset" /\ exc' = exc
       \/ /\ Raise("ParameterError") /\ UNCHANGED << raw, tempo_beat >>
    /\ UNCHANGED << flowVars, waveVars, acVars, tgVars, tempo_onset,
                    tempo_beat_alt, tempo_fine, aggVars, upFiles, key,
                    response >>

\* lines 96-97: tempos = tempo(onset_envelope=onset_env, sr=sr);
\* tempo_onset = to_scalar(np.median(tempos))
uf_tempo_onset ==
    /\ fn = "upload_file" /\ pc = "tempo_onset"
    /\ Stage("tempo_onset")
    /\ \/ \E tempos \in TempoResults :
            LET r == PyFloat(NpMedian(tempos))
            IN  /\ raw' = Append(raw, r)
                /\ tempo_onset' = server_to_scalar(r).v
                /\ pc' = "beat_slow" /\ exc' = exc
       \/ /\ Raise("ParameterError") /\ UNCHANGED << raw, tempo_onset >>
    /\ UNCHANGED << flowVars, waveVars, acVars, tgVars, tempo_beat,
                    tempo_beat_alt, tempo_fine, aggVars, upFiles, key,
                    response >>

\* lines 101-102: beat_track(start_bpm=60, tightness=80), then to_scalar
uf_beat_slow_skip_fine ==
    /\ fn = "upload_file" /\ pc = "beat_slow"
    /\ Stage("beat_slow")
    /\ \E r \in BeatTrackResults(onset_env) :
          /\ ~Raised(server_to_scalar(r))
          /\ raw' = Append(raw, r)
          /\ tempo_beat_alt' = server_to_scalar(r).v
          /\ pc' = "aggregate" /\ exc' = exc
    /\ UNCHANGED << flowVars, waveVars, acVars, tgVars, tempo_beat,
                    tempo_onset, tempo_fine, aggVars, upFiles, key, response >>
uf_beat_slow ==
    /\ fn = "upload_file" /\ pc = "beat_slow"
    /\ Stage("beat_slow")
    /\ \/ \E r \in BeatTrackResults(onset_env) :
            /\ raw' = Append(raw, r)
            /\ IF Raised(server_to_scalar(r))
               THEN /\ Raise(server_to_scalar(r).s)
                    /\ tempo_beat_alt' = tempo_beat_alt
               ELSE /\ tempo_beat_alt' = server_to_scalar(r).v
                    /\ pc' = "tempo_fine" /\ exc' = exc
       \/ /\ Raise("ParameterError") /\ UNCHANGED << raw, tempo_beat_alt >>
    /\ UNCHANGED << flowVars, waveVars, acVars, tgVars, tempo_beat,
                    tempo_onset, tempo_fine, aggVars, upFiles, key, response >>

\* lines 106-112: onset strength and tempo at hop_length = 256;
\* tempo_fine = to_scalar(np.median(tempos_fine))
uf_tempo_fine ==
    /\ fn = "upload_file" /\ pc = "tempo_fine"
    /\ Stage("tempo_fine")
    /\ \/ \E tempos_fine \in TempoResults :
            LET r == PyFloat(NpMedian(tempos_fine))
            IN  /\ raw' = Append(raw, r)
                /\ tempo_fine' = server_to_scalar(r).v
                /\ pc' = "aggregate" /\ exc' = exc
       \/ /\ Raise("ParameterError") /\ UNCHANGED << raw, tempo_fine >>
    /\ UNCHANGED << flowVars, waveVars, acVars, tgVars, tempo_beat,
                    tempo_onset, tempo_beat_alt, aggVars, upFiles, key,
                    response >>

\* line 120: 0.4 * tempo_beat + 0.3 * tempo_onset + 0.2 * tempo_beat_alt
\*           + 0.1 * tempo_fine
weighted_avg_equal(a, b, c, d) == (a + b + c + d) \div 4
weighted_avg(a, b, c, d) == (4 * a + 3 * b + 2 * c + 1 * d) \div 10

\* lines 115-123: median of the four, weighted average, and
\* bpm_final = round(np.median([bpm_median, bpm_weighted_avg]), 2)
uf_aggregate ==
    /\ fn = "upload_file" /\ pc = "aggregate"
    /\ Stage("aggregate")
    /\ bpm_estimates' = << tempo_beat, tempo_onset, tempo_beat_alt, tempo_fine >>
    /\ bpm_median' = NpMedian(bpm_estimates')
    /\ bpm_weighted_avg' =
           weighted_avg(tempo_beat, tempo_onset, tempo_beat_alt, tempo_fine)
    /\ bpm_final' =
           PyFloat(Round2(NpMedian(<< bpm_median', bpm_weighted_avg' >>)))
    /\ pc' = "validate"
    /\ UNCHANGED << flowVars, waveVars, acVars, tgVars, candVars, exc,
                    upFiles, key, response >>

\* line 126: 40 <= bpm_final <= 200
server_plausible_no_upper(b) == 40 * Scale <= b
server_plausible(b) == 40 * Scale <= b /\ b <= 200 * Scale

\* lines 126-127: the validation gate
uf_validate ==
    /\ fn = "upload_file" /\ pc = "validate"
    /\ Stage("validate")
    /\ bpm_final' = IF ~server_plausible(bpm_final.v)
                    THEN PyStr(SERVER_BPM_UNRELIABLE) ELSE bpm_final
    /\ pc' = "detect_key"
    /\ UNCHANGED << flowVars, waveVars, acVars, tgVars, candVars,
                    bpm_estimates, bpm_median, bpm_weighted_avg, exc,
                    upFiles, key, response >>

\* lines 129-131: key, confidence = detect_key(y_harmonic, sr); detect_key
\* catches its own exceptions and reports "Key detection failed"
uf_detect_key ==
    /\ fn = "upload_file" /\ pc = "detect_key"
    /\ Stage("detect_key")
    /\ key' \in Keys
    /\ pc' = "respond"
    /\ UNCHANGED << flowVars, waveVars, acVars, tgVars, candVars, aggVars,
                    exc, upFiles, response >>

\* lines 133-137: except Exception: remove the upload, answer 500
uf_except ==
    /\ fn = "upload_file" /\ pc = "except"
    /\ Stage("except")
    /\ files' = files \ {file_path}
    /\ response' = ErrorResponse(500, "Error analyzing file")
    /\ pc' = "done"
    /\ UNCHANGED << flowVars, waveVars, acVars, tgVars, candVars, aggVars,
                    exc, file_path, file_path_wav, key >>

\* lines 139-140: remove the upload, answer 200 with bpm and key
uf_respond ==
    /\ fn = "upload_file" /\ pc = "respond"
    /\ Stage("respond")
    /\ files' = files \ {file_path}
    /\ response' = OkResponse(bpm_final, key)
    /\ pc' = "done"
    /\ UNCHANGED << flowVars, waveVars, acVars, tgVars, candVars, aggVars,
                    exc, file_path, file_path_wav, key >>

-----------------------------------------------------------------------------

Next ==
    \/ call_to_scalar
    \/ call_server_to_scalar
    \/ db_trim
    \/ db_resample
    \/ db_no_resample
    \/ db_window
    \/ db_hpss
    \/ db_bandpass
    \/ db_onset
    \/ db_autocorr
    \/ db_ac_select
    \/ db_tempogram
    \/ db_beat_track
    \/ db_aggregate
    \/ db_validate
    \/ db_except
    \/ uf_no_file_part
    \/ uf_no_selected_file
    \/ uf_save
    \/ uf_convert_mp3
    \/ uf_load_wav
    \/ uf_remove_wav
    \/ uf_load
    \/ uf_metronome
    \/ uf_trim
    \/ uf_window
    \/ uf_hpss
    \/ uf_beat_fast
    \/ uf_tempo_onset
    \/ uf_beat_slow
    \/ uf_tempo_fine
    \/ uf_aggregate
    \/ uf_validate
    \/ uf_detect_key
    \/ uf_except
    \/ uf_respond

Spec == Init /\ [][Next]_vars


-----------------------------------------------------------------------------
(* server.upload_file(), two requests served concurrently (the server is    *)
(* threaded); an atomic step is one access to UPLOAD_FOLDER                 *)

Workers == {1, 2}

\* the bytes a client uploads: whose they are and whether they decode
Uploads(w) == { [from |-> w, good |-> g] : g \in BOOLEAN }
NoAudio == [from |-> 0, good |-> FALSE]

\* file names the concurrent clients send
WorkerFileNames == FileNames \ {""}

\* a request that has just been received
Worker0(w, name, data) ==
    [pc |-> "start", filename |-> name, upload |-> data, file_path |-> "",
     file_path_wav |-> "", audio |-> NoAudio, y |-> NoAudio, exc |-> "",
     interfered |-> FALSE, response |-> NoResponse]

\* every variable of the sequential entry points
idleVars == << fn, pc, trace, value, y_in, sr_in, waveVars, acVars, tgVars,
               candVars, aggVars, exc, ret, request, upVars, prev, fpVars,
               keyVars, caVars >>

InitConcurrent ==
    /\ fn = "upload_file"
    /\ value = PyNone
    /\ y_in = << >>
    /\ sr_in = 0
    /\ y = y_in
    /\ sr = sr_in
    /\ request = NoFileRequest
    /\ Locals0
    /\ prev = NoCall /\ Fingerprint0 /\ Key0 /\ Classify0
    /\ uploads = << >>
    /\ workers \in { [w \in Workers |-> Worker0(w, n[w], d[w])] :
                       n \in [Workers -> WorkerFileNames],
                       d \in { f \in [Workers -> UNION { Uploads(w) : w \in Workers }] :
                                 \A w \in Workers : f[w] \in Uploads(w) } }

\* the file system
Exists(path) == path \in DOMAIN uploads
WriteFile(path, data, w) ==
    [n \in DOMAIN uploads \cup {path} |->
        IF n = path THEN [data |-> data, owner |-> w] ELSE uploads[n]]
RemoveFile(path) == [n \in DOMAIN uploads \ {path} |-> uploads[n]]

\* path holds a file that another request wrote
Foreign(path, w) == Exists(path) /\ uploads[path].owner # w

\* what the request answers when analysis succeeds / when Flask catches an
\* exception that left upload_file
AnalysisResponse(data) == [status |-> 200, error |-> "", bpm |-> data, key |-> ""]
UnhandledResponse == [status |-> 500, error |-> "Internal Server Error",
                      bpm |-> NoAudio, key |-> ""]
AnalysisError == [status |-> 500, error |-> "Error analyzing file",
                  bpm |-> NoAudio, key |-> ""]

\* lines 46-48: file.save(file_path) creates or overwrites the file
c_save(w) ==
    LET me   == workers[w]
        path == secure_filename(me.filename)
    IN  /\ me.pc = "start"
        /\ uploads' = WriteFile(path, me.upload, w)
        /\ workers' = [workers EXCEPT ![w] =
               [me EXCEPT !.file_path = path,
                          !.interfered = @ \/ Foreign(path, w),
                          !.pc = IF endswith_mp3(path) THEN "from_mp3"
                                 ELSE "load"]]
        /\ UNCHANGED idleVars

\* a statement of the try block raises
WorkerRaise(me, kind) == [me EXCEPT !.exc = kind, !.pc = "except"]

\* reading path: FileNotFoundError when absent, a decoding error when the
\* bytes do not decode
ReadError(path) ==
    IF ~Exists(path) THEN "FileNotFoundError"
    ELSE IF ~uploads[path].data.good THEN "DecodeError"
    ELSE ""

\* lines 53-54: audio = AudioSegment.from_mp3(file_path)
c_from_mp3(w) ==
    LET me == workers[w]
    IN  /\ me.pc = "from_mp3"
        /\ workers' = [workers EXCEPT ![w] =
               IF ReadError(me.file_path) # ""
               THEN WorkerRaise(me, ReadError(me.file_path))
               ELSE [me EXCEPT !.audio = uploads[me.file_path].data,
                               !.file_path_wav = replace_mp3_wav(me.file_path),
                               !.interfered = @ \/ Foreign(me.file_path, w),
                               !.pc = "export"]]
        /\ UNCHANGED << uploads, idleVars >>

\* line 55: audio.export(file_path_wav, format="wav")
c_export(w) ==
    LET me == workers[w]
    IN  /\ me.pc = "export"
        /\ uploads' = WriteFile(me.file_path_wav, me.audio, w)
        /\ workers' = [workers EXCEPT ![w] =
               [me EXCEPT !.interfered = @ \/ Foreign(me.file_path_wav, w),
                          !.pc = "load_wav"]]
        /\ UNCHANGED idleVars

\* line 56: y, sr = librosa.load(file_path_wav)
c_load_wav(w) ==
    LET me == workers[w]
    IN  /\ me.pc = "load_wav"
        /\ workers' = [workers EXCEPT ![w] =
               IF ReadError(me.file_path_wav) # ""
               THEN WorkerRaise(me, ReadError(me.file_path_wav))
               ELSE [me EXCEPT !.y = uploads[me.file_path_wav].data,
                               !.interfered = @ \/ Foreign(me.file_path_wav, w),
                               !.pc = "remove_wav"]]
        /\ UNCHANGED << uploads, idleVars >>

\* line 57: os.remove(file_path_wav)
c_remove_wav(w) ==
    LET me == workers[w]
    IN  /\ me.pc = "remove_wav"
        /\ IF Exists(me.file_path_wav)
           THEN /\ uploads' = RemoveFile(me.file_path_wav)
                /\ workers' = [workers EXCEPT ![w] =
                       [me EXCEPT !.interfered = @ \/ Foreign(me.file_path_wav, w),
                                  !.pc = "respond"]]
           ELSE /\ uploads' = uploads
                /\ workers' = [workers EXCEPT ![w] =
                       WorkerRaise(me, "FileNotFoundError")]
        /\ UNCHANGED idleVars

\* line 59: y, sr = librosa.load(file_path)
c_load(w) ==
    LET me == workers[w]
    IN  /\ me.pc = "load"
        /\ workers' = [workers EXCEPT ![w] =
               IF ReadError(me.file_path) # ""
               THEN WorkerRaise(me, ReadError(me.file_path))
               ELSE [me EXCEPT !.y = uploads[me.file_path].data,
                               !.interfered = @ \/ Foreign(me.file_path, w),
                               !.pc = "respond"]]
        /\ UNCHANGED << uploads, idleVars >>

\* lines 133-137: except: os.remove(file_path), answer 500; os.remove raises
\* FileNotFoundError out of the handler when the file is gone
c_except(w) ==
    LET me == workers[w]
    IN  /\ me.pc = "except"
        /\ IF Exists(me.file_path)
           THEN /\ uploads' = RemoveFile(me.file_path)
                /\ workers' = [workers EXCEPT ![w] =
                       [me EXCEPT !.interfered = @ \/ Foreign(me.file_path, w),
                                  !.response = AnalysisError,
                                  !.pc = "done"]]
           ELSE /\ uploads' = uploads
                /\ workers' = [workers EXCEPT ![w] =
                       [me EXCEPT !.exc = "FileNotFoundError",
                                  !.response = UnhandledResponse,
                                  !.pc = "done"]]
        /\ UNCHANGED idleVars

\* lines 61-131 and 139-140: the analysis of y (no file is touched), then
\* os.remove(file_path) and the answer
c_respond(w) ==
    LET me == workers[w]
    IN  /\ me.pc = "respond"
        /\ IF Exists(me.file_path)
           THEN /\ uploads' = RemoveFile(me.file_path)
                /\ workers' = [workers EXCEPT ![w] =
                       [me EXCEPT !.interfered = @ \/ Foreign(me.file_path, w),
                                  !.response = AnalysisResponse(me.y),
                                  !.pc = "done"]]
           ELSE /\ uploads' = uploads
                /\ workers' = [workers EXCEPT ![w] =
                       [me EXCEPT !.exc = "FileNotFoundError",
                                  !.response = UnhandledResponse,
                                  !.pc = "done"]]
        /\ UNCHANGED idleVars

NextConcurrent ==
    \E w \in Workers :
        \/ c_save(w)
        \/ c_from_mp3(w)
        \/ c_export(w)
        \/ c_load_wav(w)
        \/ c_remove_wav(w)
        \/ c_load(w)
        \/ c_except(w)
        \/ c_respond(w)

SpecConcurrent == InitConcurrent /\ [][NextConcurrent]_vars

-----------------------------------------------------------------------------
(* Central windowing of short waveforms: the calls of detect_bpm and         *)
(* upload_file up to y = y[middle_start:middle_end], on waveforms given      *)
(* sample by sample                                                          *)

MaxShort == 6           \* samples in a short waveform

\* all waveforms of at most k samples, one run per sample
RECURSIVE SampleSeqs(_)
SampleSeqs(k) ==
    IF k = 0 THEN { << >> }
    ELSE LET shorter == SampleSeqs(k - 1)
         IN  shorter \cup
             { Append(w, [v |-> a, n |-> 1]) :
                 w \in { u \in shorter : Len(u) = k - 1 }, a \in 0..MaxAmp }

ShortWaveforms == SampleSeqs(MaxShort)

InitWindow ==
    /\ fn \in {"detect_bpm", "upload_file"}
    /\ value = PyNone
    /\ y_in \in (IF fn = "detect_bpm" THEN ShortWaveforms ELSE {<< >>})
    /\ sr_in \in (IF fn = "detect_bpm" THEN SampleRates ELSE {0})
    /\ y = y_in
    /\ sr = sr_in
    /\ request \in (IF fn = "upload_file"
                    THEN { [has_file |-> TRUE, filename |-> "loop.wav",
                            audio |-> a] : a \in ShortWaveforms }
                    ELSE {NoFileRequest})
    /\ Locals0
    /\ Ext0

NextWindow ==
    \/ db_trim
    \/ db_resample
    \/ db_no_resample
    \/ db_window
    \/ uf_save
    \/ uf_load
    \/ uf_metronome
    \/ uf_trim
    \/ uf_window

SpecWindow == InitWindow /\ [][NextWindow]_vars

-----------------------------------------------------------------------------
(* fingerprint.generate_fingerprint(file_path) *)

n_chroma == 12          \* chroma_stft: 12 pitch classes per column
MaxBeats == 2           \* columns (beats) of beat_chroma
MaxChroma == 2          \* chroma values 0..MaxChroma

\* np.roll(col, k): element i moves to index (i + k) mod n  (1-based here)
Roll(col, k) ==
    [i \in 1..Len(col) |-> col[((i - 1 - k) % Len(col)) + 1]]

\* beat-synchronised chroma columns: no energy, one pitch class, or two
\* pitch classes a second, a minor third or a tritone apart
ChromaColumns ==
    { [i \in 1..n_chroma |-> 0] } \cup
    { [i \in 1..n_chroma |->
          IF i = p THEN MaxChroma
          ELSE IF i = ((p - 1 + d) % n_chroma) + 1 THEN b ELSE 0] :
        p \in {1, 5}, d \in {1, 3, 6}, b \in 0..MaxChroma }

\* beat_chroma.T: the columns, one per beat
RECURSIVE ChromaMatrices(_)
ChromaMatrices(k) ==
    IF k = 0 THEN { << >> }
    ELSE ChromaMatrices(k - 1) \cup
         { Append(m, c) : m \in { u \in ChromaMatrices(k - 1) : Len(u) = k - 1 },
                          c \in ChromaColumns }

\* lines 40-43: max_idx = np.argmax(col); norm_col = np.roll(col, -max_idx)
NormaliseColumn(col) == Roll(col, 0 - (ArgMax(col) - 1))

\* line 49 and 52: np.array(beat_chroma_norm).T.flatten(), row by row
Flatten(cols) ==
    [j \in 1..(n_chroma * Len(cols)) |->
        cols[((j - 1) % Len(cols)) + 1][((j - 1) \div Len(cols)) + 1]]

RECURSIVE GcdOf(_)
GcdOf(v) == IF v = << >> THEN 0 ELSE Gcd(Head(v), GcdOf(Tail(v)))

\* lines 55-57: fingerprint_vector / norm when norm > 0; the direction of an
\* integer vector is the vector divided by the gcd of its entries
UnitVector(v) ==
    IF \A j \in 1..Len(v) : v[j] = 0 THEN v
    ELSE [j \in 1..Len(v) |-> v[j] \div GcdOf(v)]

\* lines 60-63: base64 of the SHA-256 digest of the vector's bytes: a string
\* that names the vector
Digest(v) == [t |-> "str", v |-> 0, elems |-> v, s |-> "sha256"]

fingerprintIdle == << fn, value, y_in, sr_in, request, waveVars, acVars,
                      tgVars, candVars, aggVars, upVars, prev, workers,
                      uploads, keyVars, caVars >>

InitFingerprint ==
    /\ fn = "generate_fingerprint"
    /\ value = PyNone
    /\ y_in = << >>
    /\ sr_in = 0
    /\ y = y_in
    /\ sr = sr_in
    /\ request = NoFileRequest
    /\ Locals0
    /\ Ext0

\* lines 23-32: load, beat_track, chroma_stft, librosa.util.sync
gf_sync ==
    /\ fn = "generate_fingerprint" /\ pc = "start"
    /\ Stage("sync")
    /\ \/ /\ beat_chroma' \in ChromaMatrices(MaxBeats)
          /\ pc' = "loop" /\ exc' = exc
       \/ /\ Raise("ParameterError") /\ beat_chroma' = beat_chroma
    /\ UNCHANGED << fingerprintIdle, beat_chroma_norm, ret >>

\* lines 38-46: one pass of the loop over beat_chroma.T
gf_normalise ==
    /\ fn = "generate_fingerprint" /\ pc = "loop"
    /\ Len(beat_chroma_norm) < Len(beat_chroma)
    /\ Stage("normalise")
    /\ beat_chroma_norm' =
           Append(beat_chroma_norm,
                  NormaliseColumn(beat_chroma[Len(beat_chroma_norm) + 1]))
    /\ UNCHANGED << fingerprintIdle, pc, beat_chroma, exc, ret >>

\* lines 49-64: flatten, scale to unit length, hash, return
gf_hash ==
    /\ fn = "generate_fingerprint" /\ pc = "loop"
    /\ Len(beat_chroma_norm) = Len(beat_chroma)
    /\ Stage("hash")
    /\ ret' = Digest(UnitVector(Flatten(beat_chroma_norm)))
    /\ pc' = "done"
    /\ UNCHANGED << fingerprintIdle, fpVars, exc >>

\* lines 66-68: except Exception: raise RuntimeError(...)
gf_except ==
    /\ fn = "generate_fingerprint" /\ pc = "except"
    /\ Stage("except")
    /\ ret' = PyRaise("RuntimeError")
    /\ pc' = "done"
    /\ UNCHANGED << fingerprintIdle, fpVars, exc >>

NextFingerprint ==
    \/ gf_sync
    \/ gf_normalise
    \/ gf_hash
    \/ gf_except

SpecFingerprint == InitFingerprint /\ [][NextFingerprint]_vars

-----------------------------------------------------------------------------
(* key_detection.detect_key(y, sr) and detection.detect_key(y, sr)          *)
(* A similarity is an integer number of 1/100000; a confidence, in percent, *)
(* an integer number of 1/Scale, so that similarity * 100 keeps its digits. *)

\* float('nan'): the result of 0/0 when the chroma vector is all zero
NaN == Inf + 1

KEY_CLASSIFICATIONS ==
    << "C", "C#", "D", "D#", "E", "F", "F#", "G", "G#", "A", "A#", "B",
       "Cmin", "C#min", "Dmin", "D#min", "Emin", "Fmin", "F#min", "Gmin",
       "G#min", "Amin", "A#min", "Bmin" >>

KEY_FAILED == "Key detection failed"

\* the similarities of the 12 rotations of a profile: one or two best
\* rotations over a common floor, or all nan for silent audio
SimPeaks == {80000, 87655}
PeakSets == { {i} : i \in 1..n_chroma } \cup { {3, n_chroma} }
SimVectors ==
    { [j \in 1..n_chroma |-> IF j \in P THEN hi ELSE 10000] :
        P \in PeakSets, hi \in SimPeaks }
    \cup { [j \in 1..n_chroma |-> NaN] }

\* a >= b on floats: false when either is nan
PyGt(a, b) == a # NaN /\ b # NaN /\ a > b
PyGe(a, b) == a # NaN /\ b # NaN /\ a >= b

\* np.max: nan when an element is nan
NpMax(v) ==
    IF \E j \in 1..Len(v) : v[j] = NaN THEN NaN
    ELSE CHOOSE x \in { v[j] : j \in 1..Len(v) } : \A j \in 1..Len(v) : v[j] <= x

\* the builtin max: the running maximum is replaced by a greater element
RECURSIVE PyMaxFrom(_, _, _)
PyMaxFrom(v, j, best) ==
    IF j > Len(v) THEN best
    ELSE PyMaxFrom(v, j + 1, IF PyGt(v[j], best) THEN v[j] ELSE best)
PyMax(v) == PyMaxFrom(v, 2, v[1])

\* np.argmax, 0-based: the first nan when there is one, else the first maximum
NpArgMax(v) ==
    IF \E j \in 1..Len(v) : v[j] = NaN
    THEN (CHOOSE j \in 1..Len(v) :
              v[j] = NaN /\ \A i \in 1..(j - 1) : v[i] # NaN) - 1
    ELSE ArgMax(v) - 1

\* round(confidence * 100, 2); round(nan, 2) is nan
Confidence(x) == IF x = NaN THEN NaN ELSE Round2(x)

\* the tuple (best_key, confidence)
KeyResult(label, conf) == [t |-> "tuple", v |-> conf, elems |-> << >>, s |-> label]

KeyFunctions == {"key_detection.detect_key", "detection.detect_key"}

keyIdle == << fn, value, y_in, sr_in, request, waveVars, acVars, tgVars,
              candVars, aggVars, upVars, prev, workers, uploads, fpVars,
              caVars >>

InitKey ==
    /\ fn \in KeyFunctions
    /\ value = PyNone
    /\ y_in = << >>
    /\ sr_in = 0
    /\ y = y_in
    /\ sr = sr_in
    /\ request = NoFileRequest
    /\ Locals0
    /\ Ext0

\* key_detection.py lines 45-71, detection.py lines 47-92: tuning, chroma,
\* and the similarities with the 12 major and the 12 minor profiles
dk_similarities ==
    /\ fn \in KeyFunctions /\ pc = "start"
    /\ Stage("similarities")
    /\ \/ /\ similarities_major' \in SimVectors
          /\ similarities_minor' \in SimVectors
          /\ pc' = "select" /\ exc' = exc
       \/ /\ Raise("ParameterError")
          /\ UNCHANGED << similarities_major, similarities_minor >>
    /\ UNCHANGED << keyIdle, best_key_index, best_key, confidence, ret >>

\* max_major and max_minor: np.max in key_detection.py (lines 76-77), the
\* builtin max in detection.py (lines 100-101)
MaxOf(v) == IF fn = "key_detection.detect_key" THEN NpMax(v) ELSE PyMax(v)

\* key_detection.py lines 83-95, detection.py lines 104-121
dk_select ==
    /\ fn \in KeyFunctions /\ pc = "select"
    /\ Stage("select")
    /\ LET max_major == MaxOf(similarities_major)
           max_minor == MaxOf(similarities_minor)
       IN  IF PyGe(max_major, max_minor)
           THEN /\ best_key_index' = NpArgMax(similarities_major)
                /\ best_key' = KEY_CLASSIFICATIONS[best_key_index' + 1]
                /\ confidence' = Confidence(max_major)
           ELSE /\ best_key_index' = NpArgMax(similarities_minor)
                /\ best_key' = KEY_CLASSIFICATIONS[best_key_index' + n_chroma + 1]
                /\ confidence' = Confidence(max_minor)
    /\ ret' = KeyResult(best_key', confidence')
    /\ pc' = "done"
    /\ UNCHANGED << keyIdle, similarities_major, similarities_minor, exc >>

\* key_detection.py lines 96-98, detection.py lines 122-124
dk_except ==
    /\ fn \in KeyFunctions /\ pc = "except"
    /\ Stage("except")
    /\ ret' = KeyResult(KEY_FAILED, 0)
    /\ pc' = "done"
    /\ UNCHANGED << keyIdle, keyVars, exc >>

NextKey ==
    \/ dk_similarities
    \/ dk_select
    \/ dk_except

SpecKey == InitKey /\ [][NextKey]_vars

-----------------------------------------------------------------------------
(* instrument_detection.classify_audio(file_path)                           *)
(* A score is an integer number of 1/Scale.                                 *)

\* the 10 of np.argsort(mean_scores)[-10:]
top_n == 10

UpperCase == "ABCDEFGHIJKLMNOPQRSTUVWXYZ"
LowerCase == "abcdefghijklmnopqrstuvwxyz"

\* the character at position i of a string
CharAt(str, i) == SubSeq(str, i, i)

\* str.lower() of one character
LowerChar(c) ==
    IF \E i \in 1..Len(UpperCase) : CharAt(UpperCase, i) = c
    THEN CharAt(LowerCase, CHOOSE i \in 1..Len(UpperCase) : CharAt(UpperCase, i) = c)
    ELSE c

\* str.lower()
RECURSIVE Lower(_)
Lower(str) ==
    IF Len(str) = 0 THEN ""
    ELSE LowerChar(CharAt(str, 1)) \o Lower(SubSeq(str, 2, Len(str)))

\* needle in hay, on strings
Contains(needle, hay) ==
    \E k \in 0..(Len(hay) - Len(needle)) :
        SubSeq(hay, k + 1, k + Len(needle)) = needle

\* line 101: the condition of the vocal filter
IsVocalCaseSensitive(class_name) ==
    \/ Contains("sing", class_name)
    \/ Contains("vocal", class_name)
    \/ Contains("speech", class_name)
IsVocal(class_name) ==
    \/ Contains("sing", Lower(class_name))
    \/ Contains("vocal", Lower(class_name))
    \/ Contains("speech", Lower(class_name))

instrument_list ==
    << "Accordion",
       "Acoustic guitar", "Acoustic guitar (nylon)",
       "Bass drum", "Bass drum (acoustic)",
       "Bass guitar",
       "Cello",
       "Clarinet",
       "Drum", "Drum kit", "Snare drum", "Cymbal",
       "Electric guitar", "Electric guitar (jazz)", "Electric guitar (clean)",
       "Electric piano",
       "Flute",
       "Glockenspiel",
       "Harpsichord",
       "Harmonica",
       "Harp",
       "Mandolin",
       "Marimba",
       "Oboe",
       "Organ",
       "Piano",
       "Saxophone",
       "Synthesizer",
       "Timpani",
       "Trombone",
       "Trumpet",
       "Tuba",
       "Violin",
       "Xylophone",
       "Ukulele",
       "Steel drum" >>

instrument_set == { instrument_list[i] : i \in 1..Len(instrument_list) }

\* display names of the class map: three vocal classes, two classes of
\* instrument_set, and ten classes that are neither
all_classes ==
    << "Speech", "Child singing", "Vocal music", "Piano", "Drum kit",
       "Silence", "Guitar", "Music", "Animal", "Vehicle",
       "Wind", "Water", "Bell", "Noise", "Engine" >>

\* the scores of the classes from "Silence" on
BackgroundScores == << 100, 450, 500, 200, 210, 220, 230, 240, 250, 260 >>

\* the number of classes before "Silence", whose score varies, and the
\* scores they take
MaxLevel == 2
Varied == Len(all_classes) - Len(BackgroundScores)
Levels == { 100 + 300 * k : k \in 0..MaxLevel }

\* np.mean(scores.numpy(), axis=0)
ScoreVectors ==
    { [i \in 1..Len(all_classes) |->
          IF i <= Varied THEN f[i] ELSE BackgroundScores[i - Varied]] :
        f \in [1..Varied -> Levels] }

\* np.argsort: the permutations (0-based) that put the scores in ascending
\* order; the default sort is not stable, so equal scores come in any order
RECURSIVE ArgSortsOf(_, _)
ArgSortsOf(scores, rest) ==
    IF rest = {} THEN { << >> }
    ELSE UNION { { << i - 1 >> \o t : t \in ArgSortsOf(scores, rest \ {i}) } :
                 i \in { i \in rest : \A j \in rest : scores[i] <= scores[j] } }
ArgSorts(scores) == ArgSortsOf(scores, 1..Len(scores))

\* s[-n:]
LastN(s, n) == SubSeq(s, IF Len(s) > n THEN Len(s) - n + 1 ELSE 1, Len(s))

\* s[::-1]
Reverse(s) == [k \in 1..Len(s) |-> s[Len(s) + 1 - k]]

\* (class_name, mean_scores[i]) for i, class_name in zip(top_indices, top_classes)
Predictions ==
    [k \in 1..Len(top_indices) |->
        [class_name |-> top_classes[k], score |-> mean_scores[top_indices[k] + 1]]]

\* list.sort(key=lambda x: x[1], reverse=True): descending by score, equal
\* scores keep their order
RECURSIVE SortByScore(_)
SortByScore(l) ==
    IF Len(l) <= 1 THEN l
    ELSE LET body == SortByScore(SubSeq(l, 1, Len(l) - 1))
             x == l[Len(l)]
             n == Cardinality({ k \in 1..Len(body) : body[k].score >= x.score })
         IN  SubSeq(body, 1, n) \o << x >> \o SubSeq(body, n + 1, Len(body))

VOCALS == "Vocals"
UNKNOWN == "Unknown"

classifyIdle == << fn, value, y_in, sr_in, request, waveVars, acVars, tgVars,
                   candVars, aggVars, upVars, prev, workers, uploads, fpVars,
                   keyVars >>

InitClassify ==
    /\ fn = "classify_audio"
    /\ value = PyNone
    /\ y_in = << >>
    /\ sr_in = 0
    /\ y = y_in
    /\ sr = sr_in
    /\ request = NoFileRequest
    /\ Locals0
    /\ Ext0

\* lines 78-87: load_audio, the YAMNet model, np.mean over the frames; an
\* exception leaves classify_audio, which has no handler
ca_scores ==
    /\ fn = "classify_audio" /\ pc = "start"
    /\ Stage("scores")
    /\ \/ /\ mean_scores' \in ScoreVectors
          /\ pc' = "top" /\ exc' = exc /\ ret' = ret
       \/ /\ exc' = "FileNotFoundError" /\ ret' = PyRaise(exc') /\ pc' = "done"
          /\ mean_scores' = mean_scores
    /\ UNCHANGED << classifyIdle, top_indices, top_classes, vocal_predictions,
                    detected_instruments >>

\* lines 90-93: top_indices and top_classes
ca_top ==
    /\ fn = "classify_audio" /\ pc = "top"
    /\ Stage("top")
    /\ \E order \in ArgSorts(mean_scores) :
           top_indices' = Reverse(LastN(order, top_n))
    /\ top_classes' = [k \in 1..Len(top_indices') |-> all_classes[top_indices'[k] + 1]]
    /\ pc' = "vocals"
    /\ UNCHANGED << classifyIdle, mean_scores, vocal_predictions,
                    detected_instruments, exc, ret >>

\* lines 99-115: the vocal filter and its branch
ca_vocals ==
    /\ fn = "classify_audio" /\ pc = "vocals"
    /\ Stage("vocals")
    /\ LET found == SelectSeq(Predictions, LAMBDA p : IsVocal(p.class_name))
       IN  IF found # << >>
           THEN /\ vocal_predictions' = SortByScore(found)
                /\ ret' = PyStr(VOCALS)
                /\ pc' = "done"
           ELSE /\ vocal_predictions' = found
                /\ ret' = ret
                /\ pc' = "instruments"
    /\ UNCHANGED << classifyIdle, mean_scores, top_indices, top_classes,
                    detected_instruments, exc >>

\* lines 118-140: the instrument filter, its branch, and the fallback
ca_instruments ==
    /\ fn = "classify_audio" /\ pc = "instruments"
    /\ Stage("instruments")
    /\ LET found == SelectSeq(Predictions, LAMBDA p : p.class_name \in instrument_set)
       IN  IF found # << >>
           THEN /\ detected_instruments' = SortByScore(found)
                /\ ret' = PyStr(detected_instruments'[1].class_name)
           ELSE /\ detected_instruments' = found
                /\ ret' = PyStr(UNKNOWN)
    /\ pc' = "done"
    /\ UNCHANGED << classifyIdle, mean_scores, top_indices, top_classes,
                    vocal_predictions, exc >>

NextClassify ==
    \/ ca_scores
    \/ ca_top
    \/ ca_vocals
    \/ ca_instruments

SpecClassify == InitClassify /\ [][NextClassify]_vars

-----------------------------------------------------------------------------
(* The aggregation of upload_file over tempos of three decimal places       *)

\* tempos the four generators report, at and about the limits of [40, 200],
\* not all of them multiples of 0.01
AggregateTempos == {39996, 40000, 40004, 120504, 199996, 200000, 200004}

\* the samples of the upload
AggregateAudio == << [v |-> 1, n |-> 32768] >>

\* upload_file after its four generators (lines 34-112) ran on loop.wav
InitAggregate ==
    /\ fn = "upload_file"
    /\ value = PyNone
    /\ y_in = << >>
    /\ sr_in = 0
    /\ request = [has_file |-> TRUE, filename |-> "loop.wav",
                  audio |-> AggregateAudio]
    /\ files = {secure_filename(request.filename)}
    /\ file_path = secure_filename(request.filename)
    /\ file_path_wav = ""
    /\ sr = server_sr
    /\ y = LET t == Trim(add_metronome(request.audio, server_sr, bpm_estimate))
           IN  PySlice(t, middle_start(t), middle_end(t))
    /\ y_percussive = y
    /\ y_percussive_filtered = << >>
    /\ onset_env \in OnsetEnvelopes(y, default_hop)
    /\ autocorr = << >>
    /\ bpms = << >>
    /\ bpm_candidate = Unset
    /\ ac_global = << >>
    /\ tempo_lags = << >>
    /\ bpm_tempogram = Unset
    /\ tempo_beat \in AggregateTempos
    /\ tempo_onset \in AggregateTempos
    /\ tempo_beat_alt \in AggregateTempos
    /\ tempo_fine \in AggregateTempos
    /\ raw = << PyFloat(tempo_beat), PyFloat(tempo_onset),
                PyFloat(tempo_beat_alt), PyFloat(tempo_fine) >>
    /\ bpm_estimates = << >>
    /\ bpm_median = Unset
    /\ bpm_weighted_avg = Unset
    /\ bpm_final = PyNone
    /\ key = ""
    /\ response = NoResponse
    /\ exc = ""
    /\ ret = PyNone
    /\ trace = << "save", "load", "metronome", "trim", "window", "hpss",
                  "beat_fast", "tempo_onset", "beat_slow", "tempo_fine" >>
    /\ pc = "aggregate"
    /\ Ext0

NextAggregate ==
    \/ uf_aggregate
    \/ uf_validate
    \/ uf_detect_key
    \/ uf_respond

SpecAggregate == InitAggregate /\ [][NextAggregate]_vars

-----------------------------------------------------------------------------
(* Properties *)

\* the failure sentinel of the specification
FailureSentinel == PyStr("BPM detection failed or is unreliable")

InTrace(s) == \E i \in 1..Len(trace) : trace[i] = s

\* a number inside the plausibility range [40, 200]
InPlausibilityRange(b) == 40 * Scale <= b /\ b <= 200 * Scale

Abs(a) == IF a < 0 THEN 0 - a ELSE a
Smallest(s) == CHOOSE x \in { s[i] : i \in 1..Len(s) } :
                   \A j \in 1..Len(s) : x <= s[j]
Largest(s) == CHOOSE x \in { s[i] : i \in 1..Len(s) } :
                   \A j \in 1..Len(s) : s[j] <= x

\* r is num/den rounded to 2 decimals: a multiple of 0.01 nearest to num/den,
\* the even multiple when two are equally near
IsRounded2(r, num, den) ==
    LET step == Scale \div 100
    IN  /\ r % step = 0
        /\ 2 * Abs(r * den - num) <= step * den
        /\ (2 * Abs(r * den - num) = step * den) => ((r \div step) % 2 = 0)

\* C1: the BPM returned by detect_bpm, and the bpm of an upload_file answer,
\* is the failure sentinel or a number in [40, 200].
C1_RangeInvariant ==
    /\ (fn = "detect_bpm" /\ pc = "done") =>
           \/ ret = FailureSentinel
           \/ IsNumber(ret) /\ InPlausibilityRange(ret.v)
    /\ (fn = "upload_file" /\ response.status = 200) =>
           \/ response.bpm = FailureSentinel
           \/ IsNumber(response.bpm) /\ InPlausibilityRange(response.bpm.v)

\* a final computed value of 250.0 was answered with the sentinel
C1_Witness ==
    /\ fn = "upload_file" /\ response.status = 200
    /\ Round2(NpMedian(<< bpm_median, bpm_weighted_avg >>)) = 250 * Scale
    /\ response.bpm = FailureSentinel

\* C2: detect_bpm never ends with an exception in flight; when a stage
\* raised, the call returns the failure sentinel, the same value the
\* validation gate assigns to an implausible result.
C2_ExceptionsBecomeSentinel ==
    /\ (fn = "detect_bpm" /\ pc = "except") => ENABLED db_except
    /\ (fn = "detect_bpm" /\ pc = "done") =>
           /\ ~Raised(ret)
           /\ exc # "" => (ret = PyStr(BPM_UNRELIABLE) /\ ret = FailureSentinel)

\* np.argmax over an empty set of in-range lags raised and the call returned
C2_Witness ==
    /\ fn = "detect_bpm" /\ pc = "done"
    /\ exc = "ValueError" /\ InTrace("ac_select")
    /\ ret = FailureSentinel

\* C3 (as claimed): when a stage of upload_file raised, the bpm reported to
\* the caller is the failure sentinel.
C3_UploadExceptionGivesSentinel ==
    (fn = "upload_file" /\ pc = "done" /\ exc # "") =>
        response.bpm = FailureSentinel

\* C4: before the validation gate the final estimate of upload_file is
\* round(median(M1, M2), 2), M1 the median of the four candidates and M2 their
\* 0.4/0.3/0.2/0.1 weighted average; (120, 122, 118, 121) gives M2 = 120.3,
\* M1 = 120.5 and 120.4.  With s the sum of the four, M1 = (s - min - max)/2
\* and median(M1, M2) = (M1 + M2)/2 = (5 (s - min - max) + 10 M2) / 20.
C4_Aggregation ==
    (fn = "upload_file" /\ pc = "validate") =>
        LET c   == << tempo_beat, tempo_onset, tempo_beat_alt, tempo_fine >>
            mid == SeqSum(c) - Smallest(c) - Largest(c)
            w   == 4 * c[1] + 3 * c[2] + 2 * c[3] + c[4]
        IN  /\ bpm_estimates = c
            /\ 2 * bpm_median = mid
            /\ 10 * bpm_weighted_avg = w
            /\ IsNumber(bpm_final)
            /\ IsRounded2(bpm_final.v, 5 * mid + w, 20)
            /\ c = << 120000, 122000, 118000, 121000 >> =>
                   /\ bpm_weighted_avg = 120300
                   /\ bpm_median = 120500
                   /\ bpm_final.v = 120400

\* the candidates (120.0, 122.0, 118.0, 121.0) were aggregated to 120.4
C4_Witness ==
    /\ fn = "upload_file" /\ pc = "validate"
    /\ bpm_estimates = << 120000, 122000, 118000, 121000 >>
    /\ bpm_final = PyFloat(120400)

\* C5: when no stage raised, detect_bpm returns the median of exactly its
\* three candidates rounded to 2 decimals if that is in [40, 200], and the
\* failure sentinel otherwise.
C5_PlainMedianOfThree ==
    (fn = "detect_bpm" /\ pc = "done" /\ exc = "") =>
        LET c == << bpm_candidate, bpm_tempogram, tempo_beat >>
            m == SeqSum(c) - Smallest(c) - Largest(c)
        IN  /\ bpm_estimates = c
            /\ IsNumber(ret) =>
                   IsRounded2(ret.v, m, 1) /\ InPlausibilityRange(ret.v)
            /\ ~IsNumber(ret) =>
                   /\ ret = FailureSentinel
                   /\ \A r \in (m - Scale)..(m + Scale) :
                          IsRounded2(r, m, 1) => ~InPlausibilityRange(r)

\* a call returned a number that is the median and none of the extremes
C5_Witness ==
    /\ fn = "detect_bpm" /\ pc = "done" /\ exc = ""
    /\ IsNumber(ret)
    /\ bpm_candidate < bpm_tempogram /\ bpm_tempogram < tempo_beat
    /\ ret.v = Round2(bpm_tempogram)
    /\ ret.v # bpm_tempogram

\* C6 (as claimed): every candidate that enters the aggregation lies in
\* [40, 200].
C6_CandidatesInRange ==
    \A i \in 1..Len(bpm_estimates) : InPlausibilityRange(bpm_estimates[i])

C8_SameCoercionEverywhere ==
    (fn = "server.to_scalar" /\ pc = "done") => ret = to_scalar(value)

\* C9: in detect_bpm the resample step runs exactly when the input sample
\* rate differs from 22050; at 22050 the trimmed samples and sr reach central
\* windowing unchanged, otherwise every later step sees sr = 22050.
C9_ResampleOnlyWhenNeeded ==
    (fn = "detect_bpm" /\ (pc = "window" \/ InTrace("window"))) =>
        /\ InTrace("resample") <=> sr_in # 22050
        /\ sr = 22050
        /\ (sr_in = 22050 /\ pc = "window") => (y = Trim(y_in) /\ sr = sr_in)

\* a 22050 Hz input reached central windowing without the resample step,
\* after trimming removed silence
C9_Witness ==
    /\ fn = "detect_bpm" /\ pc = "window"
    /\ sr_in = 22050 /\ ~InTrace("resample")
    /\ y # << >> /\ y # y_in

\* C10 (as claimed): for an all-zero, empty or too-short waveform detect_bpm
\* returns the failure sentinel.
C10_DegenerateGivesSentinel ==
    (fn = "detect_bpm" /\ pc = "done"
        /\ (IsSilent(y_in) \/ WLen(y_in) < 14 * hop_length)) =>
        ret = FailureSentinel

\* the stage at which a call raised ("" when none did)
RaisedAt(tr) ==
    IF Len(tr) >= 2 /\ tr[Len(tr)] = "except" THEN tr[Len(tr) - 1] ELSE ""

\* the library behaved as a function in the finished call p and the current
\* one: it failed at the same stage, and wherever it was given the same
\* input it gave the same answer
SameLibrary(p) ==
    /\ RaisedAt(p.trace) = RaisedAt(trace)
    /\ p.onset_in = y_percussive_filtered => p.onset_env = onset_env
    /\ (p.onset_env = onset_env /\ p.rate = sr) =>
           /\ p.ac_global = ac_global /\ p.tempo_lags = tempo_lags
           /\ p.raw = raw

\* two finished calls with the same arguments agree
Deterministic ==
    (fn = "detect_bpm" /\ pc = "done" /\ prev.made
        /\ prev.y = y_in /\ prev.sr = sr_in /\ SameLibrary(prev)) =>
        /\ ret = prev.ret
        /\ trace = prev.trace

AloneResponse(me) ==
    IF me.upload.good THEN AnalysisResponse(me.upload) ELSE AnalysisError

\* C12 (as claimed): whatever the interleaving of two concurrent upload_file
\* requests, each answers what it would answer alone, and neither overwrites,
\* reads or removes a file the other wrote.
C12_ConcurrentRequestsIndependent ==
    \A w \in DOMAIN workers :
        /\ ~workers[w].interfered
        /\ workers[w].pc = "done" =>
               workers[w].response = AloneResponse(workers[w])

\* the stages of detect_bpm in the order of the specification: silence trim,
\* resample, central windowing, harmonic/percussive separation, band-pass
\* filter, candidate generation (onset envelope, autocorrelation and its
\* selection, tempogram, beat tracking), aggregation, validation gate
StageOrder ==
    << "trim", "resample", "window", "hpss", "bandpass", "onset", "autocorr",
       "ac_select", "tempogram", "beat_track", "aggregate", "validate" >>

StagePos(s) == CHOOSE i \in 1..Len(StageOrder) : StageOrder[i] = s

\* the stages of tr other than the except clause
IsStage(s) == \E i \in 1..Len(StageOrder) : StageOrder[i] = s

\* C13: in a call of detect_bpm every stage runs at most once and in the
\* fixed order; resample is the only stage that may be skipped; once a stage
\* has failed nothing runs but the except clause, which returns; a call
\* returns only from the validation gate or from the except clause.
C13_SinglePassOrdering ==
    fn = "detect_bpm" =>
        LET n == Len(trace)
            m == IF n > 0 /\ trace[n] = "except" THEN n - 1 ELSE n
        IN  /\ \A i \in 1..m : IsStage(trace[i])
            /\ \A i \in 1..m, j \in 1..m :
                   i < j => StagePos(trace[i]) < StagePos(trace[j])
            /\ \A i \in 1..m :
                   \A k \in 1..(StagePos(trace[i]) - 1) :
                       (StageOrder[k] # "resample") =>
                           \E j \in 1..(i - 1) : trace[j] = StageOrder[k]
            /\ (exc # "") => (pc \in {"except", "done"} /\ m >= 1)
            /\ (exc # "" /\ pc = "done") => (m = n - 1 /\ ret = FailureSentinel)
            /\ (exc = "") => m = n
            /\ (pc = "done" /\ exc = "") =>
                   (trace[n] = "validate" /\ n >= Len(StageOrder) - 1)

\* harmonic/percussive separation failed after trim, resample and windowing,
\* and the call returned from the except clause
C13_Witness ==
    /\ fn = "detect_bpm" /\ pc = "done"
    /\ trace = << "trim", "resample", "window", "hpss", "except" >>
    /\ ret = FailureSentinel

\* the four candidate generators of upload_file
Generators == {"beat_fast", "tempo_onset", "beat_slow", "tempo_fine"}

\* the position in the trace at which stage s ran (0 when it did not)
RanAt(s) == IF InTrace(s) THEN CHOOSE i \in 1..Len(trace) : trace[i] = s ELSE 0

\* the coerced result of generator g: generators append their results to raw
\* in the order in which they ran
ResultOf(g) ==
    LET k == Cardinality({ h \in Generators : InTrace(h) /\ RanAt(h) <= RanAt(g) })
    IN  IF raw[k].t = "float" THEN raw[k].v ELSE server_to_scalar(raw[k]).v

\* C14: in upload_file the aggregation runs only after all four generators
\* have produced their candidates; a 200 answer, and so every reported BPM
\* number, comes from all four; and each candidate enters the aggregation
\* under its generator's name, whatever the order in which they ran.
C14_JoinBeforeAggregation ==
    fn = "upload_file" =>
        /\ (pc = "aggregate" \/ InTrace("aggregate") \/ response.status = 200
              \/ bpm_estimates # << >> \/ IsNumber(bpm_final)) =>
               /\ \A g \in Generators : InTrace(g)
               /\ tempo_beat # Unset /\ tempo_onset # Unset
               /\ tempo_beat_alt # Unset /\ tempo_fine # Unset
               /\ Len(raw) = Cardinality(Generators)
        /\ InTrace("aggregate") =>
               /\ \A g \in Generators : RanAt(g) < RanAt("aggregate")
               /\ bpm_estimates = << ResultOf("beat_fast"), ResultOf("tempo_onset"),
                                     ResultOf("beat_slow"), ResultOf("tempo_fine") >>
               /\ 10 * bpm_weighted_avg =
                      4 * ResultOf("beat_fast") + 3 * ResultOf("tempo_onset")
                      + 2 * ResultOf("beat_slow") + ResultOf("tempo_fine")
        /\ IsNumber(response.bpm) =>
               (response.status = 200 /\ Len(bpm_estimates) = 4
                   /\ response.bpm.v = Round2(NpMedian(<< bpm_median, bpm_weighted_avg >>)))

\* a BPM number was reported from four different candidates
C14_Witness ==
    /\ fn = "upload_file" /\ response.status = 200
    /\ IsNumber(response.bpm)
    /\ Cardinality({ tempo_beat, tempo_onset, tempo_beat_alt, tempo_fine }) = 4
    /\ \A g \in Generators : RanAt(g) > 0 /\ RanAt(g) < RanAt("aggregate")

\* C15 (as claimed): once upload_file has returned after saving the upload,
\* neither the saved file nor the .wav file converted from an .mp3 is left in
\* the upload folder.
C15_NoFilesLeftBehind ==
    (fn = "upload_file" /\ pc = "done" /\ InTrace("save")) => files = {}

\* C16 (as claimed): the samples that reach the silence trim of upload_file
\* are exactly the samples that loading the file produced.
C16_TrimReceivesLoadedSamples ==
    (fn = "upload_file" /\ pc = "trim") => y = request.audio

\* the fingerprint of a beat chroma matrix (lines 34-64)
FingerprintOf(cols) ==
    Digest(UnitVector(Flatten([j \in 1..Len(cols) |-> NormaliseColumn(cols[j])])))

\* every chroma column transposed by k semitones
Transposed(cols, k) == [j \in 1..Len(cols) |-> Roll(cols[j], k)]

\* C17 (as claimed): the fingerprint of beat_chroma is the fingerprint of
\* beat_chroma with every column rolled by the same number of semitones, for
\* all columns, those with their maximum at several indices included.
C17_FingerprintKeyInvariant ==
    (fn = "generate_fingerprint" /\ pc = "done" /\ ~Raised(ret)) =>
        \A k \in 0..(n_chroma - 1) :
            FingerprintOf(Transposed(beat_chroma, k)) = ret

\* C18: central windowing replaces a waveform of n samples by its samples at
\* indices floor(n/4) .. floor(3n/4) - 1 in their order; the segment has
\* floor(3n/4) - floor(n/4) samples, which is floor(n/2) or ceil(n/2), and
\* none when n <= 1; the sample rate is kept; in detect_bpm the waveform
\* windowed is the input trimmed and, when sr is not 22050, resampled.
C18_CentralWindow ==
    [][ (pc = "window" /\ pc' = "hpss") =>
            LET n  == WLen(y)
                lo == n \div 4
                hi == (3 * n) \div 4
                m  == WLen(y')
            IN  /\ m = hi - lo
                /\ \A i \in 0..(m - 1) : WAt(y', i) = WAt(y, lo + i)
                /\ m = n \div 2 \/ m = (n + 1) \div 2
                /\ n <= 1 => m = 0
                /\ sr' = sr
                /\ fn = "detect_bpm" =>
                       y = IF sr_in = 22050 THEN Trim(y_in)
                           ELSE Resample(Trim(y_in), sr_in, 22050) ]_vars

\* three samples were windowed to the two at indices 0 and 1, which differ
C18_Witness ==
    /\ fn = "detect_bpm" /\ pc = "hpss" /\ sr_in = 22050
    /\ WLen(Trim(y_in)) = 3 /\ Trim(y_in) = y_in
    /\ WLen(y) = 2 /\ WAt(y, 0) # WAt(y, 1)
    /\ WAt(y, 0) = WAt(y_in, 0) /\ WAt(y, 1) = WAt(y_in, 1)

\* the lags k of 0 .. n-1 whose BPM 60 sr / (k hop) is in [40, 200]; lag 0,
\* of infinite BPM, is none of them
LagsInRange(n, rate, hop) ==
    { k \in 1..(n - 1) : 40 * k * hop <= 60 * rate /\ 60 * rate <= 200 * k * hop }

\* the j-th smallest element of the set of lags L
NthLag(L, j) == CHOOSE k \in L : Cardinality({ i \in L : i < k }) = j - 1

\* the lag of L of greatest strength, the first one when several are;
\* strength[k + 1] is the strength of lag k
StrongestLag(L, strength) ==
    CHOOSE k \in L :
        \A i \in L : /\ strength[i + 1] <= strength[k + 1]
                     /\ i < k => strength[i + 1] < strength[k + 1]

\* bpms and strengths are the BPMs and the strengths of the lags of L, in
\* the order of the lags
SameMask(L, full, bpm_list, strengths) ==
    /\ Len(bpm_list) = Cardinality(L)
    /\ Len(strengths) = Cardinality(L)
    /\ \A j \in 1..Len(bpm_list) :
           /\ bpm_list[j] = BpmOfLag(NthLag(L, j), sr, hop_length)
           /\ strengths[j] = full[NthLag(L, j) + 1]

\* C19: the autocorrelation candidate of detect_bpm is the BPM of the first
\* lag of greatest autocorrelation among the lags whose BPM is in [40, 200];
\* the BPM list and the strength list are cut by the same mask; lag 0 is not
\* selected; the tempogram candidate is selected in the same way from the
\* time-averaged tempogram; both candidates are in [40, 200].
C19_FilterThenArgMax ==
    /\ (fn = "detect_bpm" /\ pc = "tempogram") =>
           LET full == Autocorrelate(onset_env, sr \div hop_length)
               L    == LagsInRange(Len(full), sr, hop_length)
           IN  /\ L # {}
               /\ SameMask(L, full, bpms, autocorr)
               /\ bpm_candidate = BpmOfLag(StrongestLag(L, full), sr, hop_length)
               /\ StrongestLag(L, full) # 0
               /\ InPlausibilityRange(bpm_candidate)
    /\ (fn = "detect_bpm" /\ pc = "beat_track") =>
           LET L == LagsInRange(win_length, sr, hop_length)
           IN  /\ L # {}
               /\ \E full \in Tempograms(onset_env) :
                      /\ SameMask(L, full, tempo_lags, ac_global)
                      /\ bpm_tempogram =
                             BpmOfLag(StrongestLag(L, full), sr, hop_length)
               /\ InPlausibilityRange(bpm_tempogram)
               /\ InPlausibilityRange(bpm_candidate)
    /\ (fn = "detect_bpm" /\ bpm_candidate = Unset /\ InTrace("ac_select")) =>
           /\ exc = "ValueError"
           /\ LagsInRange(Len(Autocorrelate(onset_env, sr \div hop_length)),
                          sr, hop_length) = {}

\* all in-range lags of a silent input tie at autocorrelation zero, and the
\* first of them, lag 13 (198.77 BPM), gave the candidate
C19_Witness ==
    /\ fn = "detect_bpm" /\ pc = "tempogram"
    /\ Len(autocorr) > 1
    /\ \A j \in 1..Len(autocorr) : autocorr[j] = 0
    /\ bpm_candidate = BpmOfLag(13, sr, hop_length)
    /\ bpm_candidate = bpms[1]

\* the greatest element of a vector without nan, and the first index
\* (0-based) at which it occurs
Greatest(v) == CHOOSE x \in { v[j] : j \in 1..Len(v) } : \A j \in 1..Len(v) : v[j] <= x
FirstIndexOf(v, x) == (CHOOSE j \in 1..Len(v) : v[j] = x /\ \A i \in 1..(j - 1) : v[i] # x) - 1

HasNaN(v) == \E j \in 1..Len(v) : v[j] = NaN

VocalNames == {"Speech", "Child singing", "Vocal music"}

\* the classes (1-based) of top_indices
TopClasses == { top_indices[k] + 1 : k \in 1..Len(top_indices) }

\* T is a set of 10 highest-scoring classes: no class outside it scores more
\* than a class inside it
IsTopTen(T) ==
    /\ T \subseteq 1..Len(all_classes)
    /\ Cardinality(T) = 10
    /\ \A i \in T : \A j \in (1..Len(all_classes)) \ T :
           mean_scores[i] >= mean_scores[j]

\* C21: classify_audio returns "Vocals" when one of the 10 highest-scoring
\* classes has a name containing "sing", "vocal" or "speech" in any letter
\* case, even when an instrument class scores higher; otherwise the
\* highest-scoring class of instrument_set among those 10; otherwise
\* "Unknown".  The result is "Vocals", "Unknown" or a member of
\* instrument_set.
C21_ClassifyPriority ==
    (fn = "classify_audio" /\ pc = "done" /\ ~Raised(ret)) =>
        LET vocal == { i \in TopClasses : all_classes[i] \in VocalNames }
            instr == { i \in TopClasses : all_classes[i] \in instrument_set }
        IN  /\ IsTopTen(TopClasses)
            /\ vocal # {} => ret = PyStr("Vocals")
            /\ (vocal = {} /\ instr # {}) =>
                   \E i \in instr :
                       /\ ret = PyStr(all_classes[i])
                       /\ \A j \in instr : mean_scores[j] <= mean_scores[i]
            /\ (vocal = {} /\ instr = {}) => ret = PyStr("Unknown")
            /\ ret.t = "str"
            /\ ret.s \in {"Vocals", "Unknown"} \cup instrument_set

\* "Vocals" was returned although both instruments of the top 10 scored
\* higher than its only vocal class, "Speech", while "Vocal music" scored
\* too low to be among the 10
C21_Witness ==
    /\ fn = "classify_audio" /\ pc = "done"
    /\ ret = PyStr("Vocals")
    /\ { all_classes[i] : i \in TopClasses } \cap VocalNames = {"Speech"}
    /\ \A i \in TopClasses :
           all_classes[i] \in instrument_set => mean_scores[i] > mean_scores[1]
    /\ {"Piano", "Drum kit"} \subseteq { all_classes[i] : i \in TopClasses }

\* C22: in detect_bpm the autocorrelation and the tempogram candidate, once
\* selected, are in [40, 200]; the beat-track candidate being any finite
\* number, the rounded median of the three is then in [40, 200]: the
\* validation gate never replaces it, an out-of-range beat-track value is
\* never returned, and the failure sentinel is returned only by the except
\* clause.
C22_MedianAlwaysPlausible ==
    fn = "detect_bpm" =>
        /\ bpm_candidate # Unset => InPlausibilityRange(bpm_candidate)
        /\ bpm_tempogram # Unset => InPlausibilityRange(bpm_tempogram)
        /\ (pc = "validate" /\ tempo_beat < Inf) =>
               /\ bpm_candidate # Unset /\ bpm_tempogram # Unset
               /\ IsNumber(bpm_final)
               /\ InPlausibilityRange(bpm_final.v)
        /\ (pc = "done" /\ InTrace("validate")) =>
               /\ IsNumber(ret)
               /\ InPlausibilityRange(ret.v)
               /\ ~InPlausibilityRange(tempo_beat) => ret.v # tempo_beat
        /\ (pc = "done" /\ ret = FailureSentinel) =>
               /\ exc # ""
               /\ trace[Len(trace)] = "except"
               /\ ~InTrace("validate")

\* beat_track reported 250.0, above both other candidates, and the call
\* returned the greater of the two, rounded
C22_Witness ==
    /\ fn = "detect_bpm" /\ pc = "done" /\ exc = ""
    /\ tempo_beat = 250 * Scale
    /\ bpm_candidate < bpm_tempogram
    /\ IsNumber(ret)
    /\ ret.v = Round2(bpm_tempogram)

\* the four candidates of upload_file
Candidates == << tempo_beat, tempo_onset, tempo_beat_alt, tempo_fine >>

\* the final estimate is round((M1 + M2) / 2, 2), M1 the median of the four
\* candidates and M2 their weighted average; the mean, a float, has three
\* decimal places
IsRoundedMean ==
    /\ bpm_estimates = Candidates
    /\ 2 * bpm_median = SeqSum(Candidates) - Smallest(Candidates) - Largest(Candidates)
    /\ IsNumber(bpm_final)
    /\ IsRounded2(bpm_final.v, (bpm_median + bpm_weighted_avg) \div 2, 1)

\* four candidates in [40, 200] give a number in [40, 200], before and after
\* the validation gate and in the answer
InRangeStaysInRange ==
    (\A i \in 1..4 : InPlausibilityRange(Candidates[i])) =>
        /\ pc \in {"validate", "detect_key", "respond", "done"} =>
               IsNumber(bpm_final) /\ InPlausibilityRange(bpm_final.v)
        /\ pc = "done" =>
               /\ response.status = 200
               /\ IsNumber(response.bpm)
               /\ InPlausibilityRange(response.bpm.v)
               /\ response.bpm # FailureSentinel

\* C23 (as claimed): in upload_file the median of M1 and M2 is their mean,
\* final = round((M1 + M2) / 2, 2); the final value lies between the smallest
\* and the largest of the four candidates; four candidates in [40, 200] give
\* a number in [40, 200], never the failure sentinel.
C23_FinalBetweenCandidates ==
    fn = "upload_file" =>
        /\ pc = "validate" =>
               /\ IsRoundedMean
               /\ Smallest(Candidates) <= bpm_final.v
               /\ bpm_final.v <= Largest(Candidates)
        /\ InRangeStaysInRange

\* C23 (amended): final = round((M1 + M2) / 2, 2); M1, M2 and their mean lie
\* between the smallest and the largest of the four candidates and the final
\* value is within 0.005 of that interval; four candidates in [40, 200] give
\* a number in [40, 200], never the failure sentinel.
C23_FinalNearCandidates ==
    fn = "upload_file" =>
        /\ pc = "validate" =>
               /\ IsRoundedMean
               /\ Smallest(Candidates) <= bpm_median
               /\ bpm_median <= Largest(Candidates)
               /\ Smallest(Candidates) <= bpm_weighted_avg
               /\ bpm_weighted_avg <= Largest(Candidates)
               /\ 200 * Smallest(Candidates) - Scale <= 200 * bpm_final.v
               /\ 200 * bpm_final.v <= 200 * Largest(Candidates) + Scale
        /\ InRangeStaysInRange

\* four candidates of 199.996 were answered with 200.0, more than each of
\* them and still in [40, 200]
C23_Witness ==
    /\ fn = "upload_file" /\ pc = "done"
    /\ Candidates = << 199996, 199996, 199996, 199996 >>
    /\ response.status = 200
    /\ response.bpm = PyFloat(200 * Scale)

=============================================================================
